---- MODULE Spec2Model ----
(***************************************************************************)
(* Model of the Ambari MCP server (src/src/index.ts): the HTTP gateway     *)
(* executeAmbariRequest, the resource-URI parser parseResourceUri, the     *)
(* resource handlers, the tool executors and the two request handlers      *)
(* (read-resource and call-tool).                                          *)
(*                                                                         *)
(* Representation of strings.  A string that is split on "/" is modelled   *)
(* as the sequence of its "/"-separated segments, so "cluster/x/alerts"    *)
(* is <<"cluster", "x", "alerts">> and "ambari://clusters" is              *)
(* <<"ambari:", "", "clusters">>.  Every string has exactly one such       *)
(* sequence (of length >= 1) and a segment never holds a "/".              *)
(***************************************************************************)
EXTENDS Integers, Sequences, FiniteSets, TLC

VARIABLES
    uri,      \* the resource URI a client is about to read (<<>>: none)
    edits,    \* how many edits the URI has had
    pc,       \* "idle", "awaiting" (a gateway request is in flight) or "done"
    req,      \* the inbound request being handled
    parsed,   \* the read-resource handler's parsedUri
    calls,    \* the arguments of the gateway calls made so far
    sent,     \* the request configurations handed to the HTTP client so far
    got,      \* what the HTTP client answered to each of them
    outcome,  \* the handler's result or the error it threw
    store,    \* the upstream's current cluster-env properties
    modified, \* how many times another client has changed them
    savers,   \* the save-alert-settings invocations running side by side
    writes,   \* their PUTs: the properties submitted and those replaced
    inflight  \* the handler state of each of several interleaved invocations

vars == <<uri, edits, pc, req, parsed, calls, sent, got, outcome,
          store, modified, savers, writes, inflight>>

(***************************************************************************)
(* Bounds of the model.                                                    *)
(***************************************************************************)
MaxEdits == 1

MaxItems == 2

MaxConfigs == 2

(* Changes another client makes to the upstream configuration. *)
MaxModifications == 1

(***************************************************************************)
(* Segments the URIs are built from: the literals of the grammar, the      *)
(* scheme, a plain name, the empty segment (two adjacent or a trailing     *)
(* "/") and a segment that holds a line terminator.                        *)
(***************************************************************************)
Literals == {"clusters", "cluster", "services", "hosts", "alerts", "summary",
             "stale-configs", "requests", "recent", "configurations",
             "service", "components", "host"}

LineTerminatorSegs == {"x<LF>y"}

Segments == Literals \cup {"ambari:", "", "x"} \cup LineTerminatorSegs

HasLineTerminator(seg) == seg \in LineTerminatorSegs

Drop(s, n) == SubSeq(s, n + 1, Len(s))

(* The regular-expression piece (.+) applied to the rest of a string: at   *)
(* least one character, none of them a line terminator.                    *)
DotPlus(s) ==
    /\ s # <<>>
    /\ s # <<"">>
    /\ \A i \in 1..Len(s) : ~HasLineTerminator(s[i])

(* /^ambari:\/\/(.+)$/ *)
(* UriMatch with a scheme pattern that keeps its position between uses   *)
(* (a shared global pattern): it matches only while no request is under   *)
(* way.                                                                    *)
UriMatchSticky(u) ==
    /\ pc = "idle"
    /\ Len(u) >= 3
    /\ u[1] = "ambari:"
    /\ u[2] = ""
    /\ DotPlus(Drop(u, 2))

UriMatch(u) ==
    /\ Len(u) >= 3
    /\ u[1] = "ambari:"
    /\ u[2] = ""
    /\ DotPlus(Drop(u, 2))

(* path.startsWith(prefix + "/") *)
StartsWith(path, prefix) == Len(path) >= 2 /\ path[1] = prefix

(* /^cluster\/([^\/]+)(?:\/(.+))?$/ and /^service\/([^\/]+)(?:\/(.+))?$/ *)
NamedMatch(path, lit) ==
    /\ Len(path) >= 2
    /\ path[1] = lit
    /\ path[2] # ""
    /\ (Len(path) = 2 \/ DotPlus(Drop(path, 2)))

(* /^host\/(.+)$/ *)
HostMatch(path) ==
    /\ Len(path) >= 2
    /\ path[1] = "host"
    /\ DotPlus(Drop(path, 1))

(* new McpError(ErrorCode.InvalidRequest, `${msg}: ${what}`) *)
InvalidRequest(msg, what) ==
    [error |-> "InvalidRequest", message |-> [prefix |-> msg, about |-> what]]

IsError(r) == "error" \in DOMAIN r

NoMatch == [nomatch |-> TRUE]

(* The service branch of parseResourceUri; NoMatch when the code falls     *)
(* through to the statements after it.                                     *)
ServiceResource(clusterName, subPath) ==
    IF ~NamedMatch(subPath, "service") THEN NoMatch
    ELSE LET serviceName    == <<subPath[2]>>
             serviceSubPath == Drop(subPath, 2)
         IN  IF serviceSubPath = <<>>
             THEN [type |-> "service", clusterName |-> clusterName,
                   serviceName |-> serviceName]
             ELSE IF serviceSubPath = <<"components">>
             THEN [type |-> "service-components", clusterName |-> clusterName,
                   serviceName |-> serviceName]
             ELSE NoMatch

(* ClusterResource with each literal compared against the start of the    *)
(* sub-path only (startsWith in place of ===).                             *)
ClusterResourceByPrefix(clusterName, subPath) ==
    IF subPath = <<>> THEN [type |-> "cluster", clusterName |-> clusterName]
    ELSE IF subPath[1] = "services"
    THEN [type |-> "services", clusterName |-> clusterName]
    ELSE IF subPath[1] = "hosts"
    THEN [type |-> "hosts", clusterName |-> clusterName]
    ELSE IF subPath[1] = "alerts"
    THEN [type |-> "alerts", clusterName |-> clusterName]
    ELSE IF subPath[1] = "requests"
    THEN [type |-> "recent-requests", clusterName |-> clusterName]
    ELSE IF subPath[1] = "configurations"
    THEN [type |-> "configurations", clusterName |-> clusterName]
    ELSE ServiceResource(clusterName, subPath)

(* The chain of sub-path comparisons of the cluster branch. *)
ClusterResource(clusterName, subPath) ==
    IF subPath = <<>> THEN [type |-> "cluster", clusterName |-> clusterName]
    ELSE IF subPath = <<"services">>
    THEN [type |-> "services", clusterName |-> clusterName]
    ELSE IF subPath = <<"hosts">>
    THEN [type |-> "hosts", clusterName |-> clusterName]
    ELSE IF subPath = <<"alerts">>
    THEN [type |-> "alerts", clusterName |-> clusterName]
    ELSE IF subPath = <<"alerts", "summary">>
    THEN [type |-> "alerts-summary", clusterName |-> clusterName]
    ELSE IF subPath = <<"services", "stale-configs">>
    THEN [type |-> "stale-configs", clusterName |-> clusterName]
    ELSE IF subPath = <<"requests", "recent">>
    THEN [type |-> "recent-requests", clusterName |-> clusterName]
    ELSE IF subPath = <<"configurations">>
    THEN [type |-> "configurations", clusterName |-> clusterName]
    ELSE ServiceResource(clusterName, subPath)

(* The host branch and the final throw. *)
HostResource(u, path) ==
    IF StartsWith(path, "host") /\ HostMatch(path)
    THEN [type |-> "host", hostName |-> Drop(path, 1)]
    ELSE InvalidRequest("Unsupported resource URI", u)

parseResourceUri(u) ==
    IF ~UriMatch(u) THEN InvalidRequest("Invalid resource URI", u)
    ELSE LET path == Drop(u, 2)
         IN  IF path = <<"clusters">> THEN [type |-> "clusters"]
             ELSE IF StartsWith(path, "cluster")
             THEN IF ~NamedMatch(path, "cluster")
                  THEN InvalidRequest("Invalid cluster resource URI", u)
                  ELSE LET r == ClusterResource(<<path[2]>>, Drop(path, 2))
                       IN  IF r # NoMatch THEN r ELSE HostResource(u, path)
             ELSE HostResource(u, path)

(***************************************************************************)
(* JavaScript values.  Every value carries its type tag; a string that is  *)
(* only compared is a TLA+ string, a string whose characters are scanned   *)
(* (an error message) is the sequence of its characters.                   *)
(***************************************************************************)
Undef == [t |-> "undefined"]

Null == [t |-> "null"]

Str(s) == [t |-> "string", v |-> s]

Text(cs) == [t |-> "string", chars |-> cs]

Num(n) == [t |-> "number", v |-> n]

Bool(b) == [t |-> "boolean", b |-> b]

Obj(fields) == [t |-> "object", o |-> fields]

Arr(elems) == [t |-> "array", a |-> elems]

(* Date.now(): some number, never 0. *)
DateNow == [t |-> "number", now |-> TRUE]

(* NaN *)
NaN == [t |-> "number", nan |-> TRUE]

(* An object with no own property. *)
EmptyObj == Obj([k \in {} |-> Undef])

(* ToBoolean *)
Truthy(x) ==
    CASE x.t = "undefined" -> FALSE
      [] x.t = "null"      -> FALSE
      [] x.t = "string"    -> IF "v" \in DOMAIN x THEN x.v # "" ELSE x.chars # <<>>
      [] x.t = "number"    -> IF "v" \in DOMAIN x THEN x.v # 0
                              ELSE "now" \in DOMAIN x
      [] x.t = "boolean"   -> x.b
      [] OTHER             -> TRUE

(* x.k for an object x; undefined when x has no own property k. *)
Get(x, k) == IF x.t = "object" /\ k \in DOMAIN x.o THEN x.o[k] ELSE Undef

(* x || y *)
OrElse(x, y) == IF Truthy(x) THEN x ELSE y

(* The names every object inherits from Object.prototype: a lookup         *)
(* obj[name] of one of them on a plain object yields a function (or, for   *)
(* __proto__, the prototype object), none of which has a push method.      *)
ObjectPrototypeKeys ==
    {"constructor", "toString", "toLocaleString", "valueOf", "hasOwnProperty",
     "isPrototypeOf", "propertyIsEnumerable", "__proto__",
     "__defineGetter__", "__defineSetter__", "__lookupGetter__",
     "__lookupSetter__"}

TypeError(msg) == [exception |-> "TypeError", message |-> msg]

(***************************************************************************)
(* Static configuration (read once at startup).                            *)
(***************************************************************************)
AMBARI_BASE_URL == <<"http:", "", "localhost:8080", "api", "v1">>

AMBARI_USERNAME == "admin"

AMBARI_PASSWORD == "admin"

TIMEOUT_MS == 30000

(***************************************************************************)
(* Error messages of the HTTP client, as character sequences.              *)
(***************************************************************************)
(* "timeout of 30000ms exceeded" *)
MsgAxiosTimeout ==
    Text(<<"t", "i", "m", "e", "o", "u", "t", " ", "o", "f", " ", "3", "0", "0",
           "0", "0", "m", "s", " ", "e", "x", "c", "e", "e", "d", "e", "d">>)

(* "connect ETIMEDOUT" *)
MsgSocketTimedOut ==
    Text(<<"c", "o", "n", "n", "e", "c", "t", " ", "E", "T", "I", "M", "E", "D",
           "O", "U", "T">>)

(* "connect ECONNREFUSED" *)
MsgRefused ==
    Text(<<"c", "o", "n", "n", "e", "c", "t", " ", "E", "C", "O", "N", "N", "R",
           "E", "F", "U", "S", "E", "D">>)

(* "Request Timeout" *)
MsgUpperTimeout ==
    Text(<<"R", "e", "q", "u", "e", "s", "t", " ", "T", "i", "m", "e", "o", "u",
           "t">>)

(* "Network Error" *)
MsgNetwork ==
    Text(<<"N", "e", "t", "w", "o", "r", "k", " ", "E", "r", "r", "o", "r">>)

(* "Error" *)
MsgError == Text(<<"E", "r", "r", "o", "r">>)

(* "Request failed" *)
MsgStatus ==
    Text(<<"R", "e", "q", "u", "e", "s", "t", " ", "f", "a", "i", "l", "e", "d">>)

(* "" *)
MsgEmpty == Text(<<>>)

Lower(c) ==
    CASE c = "A" -> "a" [] c = "B" -> "b" [] c = "C" -> "c" [] c = "D" -> "d"
      [] c = "E" -> "e" [] c = "F" -> "f" [] c = "G" -> "g" [] c = "H" -> "h"
      [] c = "I" -> "i" [] c = "J" -> "j" [] c = "K" -> "k" [] c = "L" -> "l"
      [] c = "M" -> "m" [] c = "N" -> "n" [] c = "O" -> "o" [] c = "P" -> "p"
      [] c = "Q" -> "q" [] c = "R" -> "r" [] c = "S" -> "s" [] c = "T" -> "t"
      [] c = "U" -> "u" [] c = "V" -> "v" [] c = "W" -> "w" [] c = "X" -> "x"
      [] c = "Y" -> "y" [] c = "Z" -> "z" [] OTHER -> c

TimeoutPattern == <<"t", "i", "m", "e", "o", "u", "t">>

(* MatchesTimeout without the i flag: /timeout/.test(cs). *)
MatchesTimeoutCaseSensitive(cs) ==
    \E i \in 1..(Len(cs) - Len(TimeoutPattern) + 1) :
        \A j \in 1..Len(TimeoutPattern) :
            cs[i + j - 1] = TimeoutPattern[j]

(* /timeout/i.test(cs): the pattern occurs somewhere in cs, letter case    *)
(* ignored.                                                                *)
MatchesTimeout(cs) ==
    \E i \in 1..(Len(cs) - Len(TimeoutPattern) + 1) :
        \A j \in 1..Len(TimeoutPattern) :
            Lower(cs[i + j - 1]) = TimeoutPattern[j]

(* method.toLowerCase() and its inverse toUpperCase() on the method names. *)
ToLowerCase(m) ==
    CASE m = "GET" -> "get" [] m = "POST" -> "post" [] m = "PUT" -> "put"
      [] m = "DELETE" -> "delete" [] OTHER -> m

ToUpperCase(m) ==
    CASE m = "get" -> "GET" [] m = "post" -> "POST" [] m = "put" -> "PUT"
      [] m = "delete" -> "DELETE" [] OTHER -> m

(***************************************************************************)
(* executeAmbariRequest.  A path "/a/b" is the segment sequence            *)
(* <<"", "a", "b">>, so the base URL followed by it is the base URL's      *)
(* segments followed by <<"a", "b">>.                                      *)
(***************************************************************************)
Url(path) == AMBARI_BASE_URL \o Tail(path)

(* Object.keys(params).length ? params : undefined *)
ConfigParams(params) == IF DOMAIN params # {} THEN params ELSE Undef

(* The request configuration handed to the HTTP client. *)
AxiosConfig(method, path, params, body) ==
    [url     |-> Url(path),
     method  |-> ToLowerCase(method),
     auth    |-> [username |-> AMBARI_USERNAME, password |-> AMBARI_PASSWORD],
     timeout |-> TIMEOUT_MS,
     params  |-> ConfigParams(params),
     data    |-> body,
     headers |-> [ContentType |-> "application/json",
                  XRequestedBy |-> "ambari-mcp-server"]]

(* The value returned for a response the client accepts. *)
(* GatewayResult handing the client's response on whole. *)
GatewayResultWhole(response) == response

GatewayResult(response) ==
    [status |-> response.status, statusText |-> response.statusText,
     data |-> response.data]

NoResponse == [absent |-> TRUE]

(* error.code === 'ECONNABORTED' || /timeout/i.test(error.message || '') *)
IsTimeout(error) ==
    \/ error.code = Str("ECONNABORTED")
    \/ MatchesTimeout(OrElse(error.message, MsgEmpty).chars)

(* SummaryParts as an else-if chain: the first cause that applies only. *)
SummaryPartsChain(config, error) ==
    LET hasResponse == error.response # NoResponse
        status      == IF hasResponse THEN error.response.status ELSE Undef
        statusText  == IF hasResponse THEN error.response.statusText ELSE Undef
    IN  <<[tag |-> "request", method |-> ToUpperCase(config.method),
           url |-> config.url]>>
        \o (IF Truthy(status)
            THEN <<[tag |-> "HTTP", status |-> status,
                    statusText |-> IF Truthy(statusText) THEN statusText
                                   ELSE Str("")]>>
            ELSE IF Truthy(error.code)
            THEN <<[tag |-> "Code", code |-> error.code]>>
            ELSE IF IsTimeout(error) THEN <<[tag |-> "Timeout"]>>
            ELSE <<[tag |-> "No response"]>>)

(* SummaryParts without its last push ("No response"). *)
SummaryPartsNoFallback(config, error) ==
    LET hasResponse == error.response # NoResponse
        status      == IF hasResponse THEN error.response.status ELSE Undef
        statusText  == IF hasResponse THEN error.response.statusText ELSE Undef
    IN  <<[tag |-> "request", method |-> ToUpperCase(config.method),
           url |-> config.url]>>
        \o (IF Truthy(status)
            THEN <<[tag |-> "HTTP", status |-> status,
                    statusText |-> IF Truthy(statusText) THEN statusText
                                   ELSE Str("")]>>
            ELSE <<>>)
        \o (IF Truthy(error.code) /\ ~Truthy(status)
            THEN <<[tag |-> "Code", code |-> error.code]>> ELSE <<>>)
        \o (IF IsTimeout(error) THEN <<[tag |-> "Timeout"]>> ELSE <<>>)

(* The parts of the summary line, in the order they are pushed. *)
SummaryParts(config, error) ==
    LET hasResponse == error.response # NoResponse
        status      == IF hasResponse THEN error.response.status ELSE Undef
        statusText  == IF hasResponse THEN error.response.statusText ELSE Undef
        code        == error.code
        methodUpper == ToUpperCase(config.method)
    IN  <<[tag |-> "request", method |-> methodUpper, url |-> config.url]>>
        \o (IF Truthy(status)
            THEN <<[tag |-> "HTTP", status |-> status,
                    statusText |-> IF Truthy(statusText) THEN statusText
                                   ELSE Str("")]>>
            ELSE <<>>)
        \o (IF Truthy(code) /\ ~Truthy(status)
            THEN <<[tag |-> "Code", code |-> code]>> ELSE <<>>)
        \o (IF IsTimeout(error) THEN <<[tag |-> "Timeout"]>> ELSE <<>>)
        \o (IF ~hasResponse /\ ~Truthy(code)
            THEN <<[tag |-> "No response"]>> ELSE <<>>)

(* The diagnostics object; an optional property that is not set is absent. *)
Diagnostics(config, params, error) ==
    LET hasResponse == error.response # NoResponse
        data        == IF hasResponse THEN error.response.data ELSE Undef
        base == [url        |-> config.url,
                 method     |-> ToUpperCase(config.method),
                 params     |-> ConfigParams(params),
                 timeoutMs  |-> TIMEOUT_MS,
                 code       |-> error.code,
                 status     |-> IF hasResponse THEN error.response.status ELSE Undef,
                 statusText |-> IF hasResponse THEN error.response.statusText
                                ELSE Undef]
        timeout == IF IsTimeout(error) THEN [timeout |-> TRUE] ELSE <<>>
        body    == IF Truthy(data) THEN [responseBody |-> data] ELSE <<>>
        message == IF Truthy(error.message) /\ error.message # MsgError
                   THEN [message |-> error.message] ELSE <<>>
    IN  base @@ timeout @@ body @@ message

McpError(code, msg, data) == [error |-> code, message |-> msg, data |-> data]

(* The error executeAmbariRequest throws when the client call fails. *)
GatewayError(config, params, error) ==
    McpError("InternalError",
             [prefix |-> "Ambari API Error", summary |-> SummaryParts(config, error)],
             [diagnostics |-> Diagnostics(config, params, error)])

(***************************************************************************)
(* AMBARI_RESOURCES: the published URI templates.                          *)
(***************************************************************************)
AMBARI_RESOURCES ==
    << [uri |-> <<"ambari:", "", "clusters">>, name |-> "Ambari Clusters"],
       [uri |-> <<"ambari:", "", "cluster", "{clusterName}">>,
        name |-> "Cluster Details"],
       [uri |-> <<"ambari:", "", "cluster", "{clusterName}", "services">>,
        name |-> "Cluster Services"],
       [uri |-> <<"ambari:", "", "cluster", "{clusterName}", "hosts">>,
        name |-> "Cluster Hosts"],
       [uri |-> <<"ambari:", "", "cluster", "{clusterName}", "alerts">>,
        name |-> "Cluster Alerts"],
       [uri |-> <<"ambari:", "", "cluster", "{clusterName}", "alerts", "summary">>,
        name |-> "Alert Summary"],
       [uri |-> <<"ambari:", "", "cluster", "{clusterName}", "services",
                  "stale-configs">>,
        name |-> "Stale Configurations"],
       [uri |-> <<"ambari:", "", "cluster", "{clusterName}", "service",
                  "{serviceName}">>,
        name |-> "Service Details"],
       [uri |-> <<"ambari:", "", "cluster", "{clusterName}", "service",
                  "{serviceName}", "components">>,
        name |-> "Service Components"],
       [uri |-> <<"ambari:", "", "host", "{hostName}">>, name |-> "Host Details"],
       [uri |-> <<"ambari:", "", "cluster", "{clusterName}", "requests", "recent">>,
        name |-> "Recent Operations"],
       [uri |-> <<"ambari:", "", "cluster", "{clusterName}", "configurations">>,
        name |-> "Cluster Configurations"] >>

(***************************************************************************)
(* What a handler or executor does next: issue a gateway request and wait  *)
(* for it, return a value, or throw.                                       *)
(***************************************************************************)
Request(method, path, params, body) ==
    [do |-> "request", method |-> method, path |-> path, params |-> params,
     body |-> body]

Return(v) == [do |-> "return", value |-> v]

Throw(e) == [do |-> "throw", error |-> e]

NoParams == [k \in {} |-> Undef]

(* if (cond) params[key] = value *)
SetIf(cond, key, value) == IF cond THEN key :> value ELSE NoParams

(***************************************************************************)
(* resourceHandlers: the request each handler issues.                      *)
(***************************************************************************)
HandlerKinds ==
    {"clusters", "cluster", "services", "hosts", "alerts", "alerts-summary",
     "stale-configs", "service", "service-components", "host",
     "recent-requests", "configurations"}

HandlerRequest(d) ==
    CASE d.type = "clusters" ->
           Request("GET", <<"", "clusters">>,
                   "fields" :> Str("Clusters/cluster_name,Clusters/version,Clusters/state,Clusters/health_report"),
                   Undef)
      [] d.type = "cluster" ->
           Request("GET", <<"", "clusters">> \o d.clusterName,
                   "fields" :> Str("Clusters/*,services/ServiceInfo/service_name,services/ServiceInfo/state,hosts/Hosts/host_name,hosts/Hosts/host_status"),
                   Undef)
      [] d.type = "services" ->
           Request("GET", <<"", "clusters">> \o d.clusterName \o <<"services">>,
                   "fields" :> Str("ServiceInfo/service_name,ServiceInfo/state,ServiceInfo/maintenance_state,components/ServiceComponentInfo/component_name,components/ServiceComponentInfo/total_count,components/ServiceComponentInfo/started_count"),
                   Undef)
      [] d.type = "hosts" ->
           Request("GET", <<"", "clusters">> \o d.clusterName \o <<"hosts">>,
                   "fields" :> Str("Hosts/host_name,Hosts/host_status,Hosts/maintenance_state,host_components/HostRoles/component_name,host_components/HostRoles/state"),
                   Undef)
      [] d.type = "alerts" ->
           Request("GET", <<"", "clusters">> \o d.clusterName \o <<"alerts">>,
                   ("fields" :> Str("Alert/definition_name,Alert/service_name,Alert/component_name,Alert/host_name,Alert/state,Alert/text,Alert/timestamp"))
                   @@ ("_" :> DateNow),
                   Undef)
      [] d.type = "alerts-summary" ->
           Request("GET", <<"", "clusters">> \o d.clusterName \o <<"alerts">>,
                   ("format" :> Str("groupedSummary")) @@ ("_" :> DateNow),
                   Undef)
      [] d.type = "stale-configs" ->
           Request("GET", <<"", "clusters">> \o d.clusterName \o <<"host_components">>,
                   ("fields" :> Str("HostRoles/component_name,HostRoles/host_name,HostRoles/service_name,HostRoles/state,HostRoles/stale_configs"))
                   @@ ("HostRoles/stale_configs" :> Str("true"))
                   @@ ("_" :> DateNow),
                   Undef)
      [] d.type = "service" ->
           Request("GET", <<"", "clusters">> \o d.clusterName \o <<"services">>
                          \o d.serviceName,
                   "fields" :> Str("ServiceInfo/*,components/ServiceComponentInfo/*,components/host_components/HostRoles/state,components/host_components/HostRoles/host_name,components/host_components/HostRoles/stale_configs"),
                   Undef)
      [] d.type = "service-components" ->
           Request("GET", <<"", "clusters">> \o d.clusterName \o <<"services">>
                          \o d.serviceName,
                   "fields" :> Str("components/ServiceComponentInfo/component_name,components/ServiceComponentInfo/category,components/ServiceComponentInfo/total_count,components/ServiceComponentInfo/started_count,components/host_components/HostRoles/host_name,components/host_components/HostRoles/state,components/host_components/HostRoles/stale_configs"),
                   Undef)
      [] d.type = "host" ->
           Request("GET", <<"", "hosts">> \o d.hostName,
                   "fields" :> Str("Hosts/*,host_components/HostRoles/component_name,host_components/HostRoles/service_name,host_components/HostRoles/state,host_components/HostRoles/stale_configs"),
                   Undef)
      [] d.type = "recent-requests" ->
           Request("GET", <<"", "clusters">> \o d.clusterName \o <<"requests">>,
                   ("fields" :> Str("Requests/id,Requests/request_context,Requests/request_status,Requests/progress_percent,Requests/start_time,Requests/end_time,Requests/create_time"))
                   @@ ("sortBy" :> Str("Requests/id.desc"))
                   @@ ("page_size" :> Num(20))
                   @@ ("_" :> DateNow),
                   Undef)
      [] d.type = "configurations" ->
           Request("GET", <<"", "clusters">> \o d.clusterName \o <<"configurations">>,
                   ("fields" :> Str("Config/type,Config/tag,Config/version,Config/service_name"))
                   @@ ("_" :> DateNow),
                   Undef)

(***************************************************************************)
(* The alerts handler's grouping by state.                                 *)
(***************************************************************************)
AlertStates == {"CRITICAL", "WARNING", "OK", "UNKNOWN"}

EmptyBuckets == [b \in AlertStates |-> <<>>]

IsException(r) == "exception" \in DOMAIN r

(* One turn of the forEach callback: alertsByState after the alert, or the *)
(* exception the callback throws.                                          *)
BucketAlert(alertsByState, alert) ==
    LET state == OrElse(Get(Get(alert, "Alert"), "state"), Str("UNKNOWN")).v
    IN  IF state \in DOMAIN alertsByState
        THEN [alertsByState EXCEPT ![state] = Append(@, alert)]
        ELSE IF state \in ObjectPrototypeKeys
        THEN TypeError("alertsByState[state].push is not a function")
        ELSE alertsByState

RECURSIVE GroupAlerts(_, _)
GroupAlerts(items, alertsByState) ==
    IF items = <<>> THEN alertsByState
    ELSE LET next == BucketAlert(alertsByState, Head(items))
         IN  IF IsException(next) THEN next
             ELSE GroupAlerts(Tail(items), next)

(* response.data && response.data.items *)
HasItems(response) ==
    Truthy(response.data) /\ Truthy(Get(response.data, "items"))

AlertsResult(d, response) ==
    LET alertsByState ==
            IF HasItems(response)
            THEN GroupAlerts(Get(response.data, "items").a, EmptyBuckets)
            ELSE EmptyBuckets
    IN  IF IsException(alertsByState) THEN Throw(alertsByState)
        ELSE Return([type        |-> "cluster-alerts",
                     clusterName |-> d.clusterName,
                     summary     |-> [critical |-> Len(alertsByState["CRITICAL"]),
                                      warning  |-> Len(alertsByState["WARNING"]),
                                      ok       |-> Len(alertsByState["OK"]),
                                      unknown  |-> Len(alertsByState["UNKNOWN"])],
                     data        |-> alertsByState])

(***************************************************************************)
(* The stale-configs handler's grouping by service.                        *)
(***************************************************************************)
NoGroups == [k \in {} |-> <<>>]

(* GroupStale with an item that has no service name grouped under         *)
(* "undefined" (the if (serviceName) test left out).                       *)
GroupStaleUnconditional(staleByService, item) ==
    LET serviceName == Get(Get(item, "HostRoles"), "service_name")
        key == IF serviceName = Undef THEN "undefined" ELSE serviceName.v
    IN  IF key \in DOMAIN staleByService
        THEN [staleByService EXCEPT ![key] = Append(@, item)]
        ELSE IF key \in ObjectPrototypeKeys
        THEN TypeError("staleByService[serviceName].push is not a function")
        ELSE staleByService @@ (key :> <<item>>)

GroupStale(staleByService, item) ==
    LET serviceName == Get(Get(item, "HostRoles"), "service_name")
    IN  IF ~Truthy(serviceName) THEN staleByService
        ELSE IF serviceName.v \in DOMAIN staleByService
        THEN [staleByService EXCEPT ![serviceName.v] = Append(@, item)]
        ELSE IF serviceName.v \in ObjectPrototypeKeys
        THEN TypeError("staleByService[serviceName].push is not a function")
        ELSE staleByService @@ (serviceName.v :> <<item>>)

RECURSIVE GroupStaleItems(_, _)
GroupStaleItems(items, staleByService) ==
    IF items = <<>> THEN staleByService
    ELSE LET next == GroupStale(staleByService, Head(items))
         IN  IF IsException(next) THEN next
             ELSE GroupStaleItems(Tail(items), next)

(* response.data?.items?.length || 0 *)
ItemsLength(response) ==
    LET items == Get(response.data, "items")
    IN  IF items.t = "array" THEN Len(items.a) ELSE 0

StaleConfigsResult(d, response) ==
    LET staleByService ==
            IF HasItems(response)
            THEN GroupStaleItems(Get(response.data, "items").a, NoGroups)
            ELSE NoGroups
    IN  IF IsException(staleByService) THEN Throw(staleByService)
        ELSE Return([type        |-> "stale-configurations",
                     clusterName |-> d.clusterName,
                     summary     |-> [totalStaleComponents |-> ItemsLength(response),
                                      affectedServices |->
                                          Cardinality(DOMAIN staleByService)],
                     data        |-> staleByService])

(* The "type" tag of the handlers that pass the upstream body through. *)
ResultType(kind) ==
    CASE kind = "clusters"           -> "clusters"
      [] kind = "cluster"            -> "cluster-details"
      [] kind = "services"           -> "cluster-services"
      [] kind = "hosts"              -> "cluster-hosts"
      [] kind = "alerts-summary"     -> "alerts-summary"
      [] kind = "service"            -> "service-details"
      [] kind = "service-components" -> "service-components"
      [] kind = "host"               -> "host-details"
      [] kind = "recent-requests"    -> "recent-requests"
      [] kind = "configurations"     -> "cluster-configurations"

(* What a resource handler does with the gateway's result. *)
HandlerResult(d, response) ==
    CASE d.type = "alerts"        -> AlertsResult(d, response)
      [] d.type = "stale-configs" -> StaleConfigsResult(d, response)
      [] OTHER ->
           Return([type |-> ResultType(d.type), data |-> response.data]
                  @@ [k \in DOMAIN d \ {"type"} |-> d[k]])

(***************************************************************************)
(* Tool catalog and executors.                                             *)
(***************************************************************************)
(* The name of each entry of AMBARI_TOOLS, in catalog order. *)
AMBARI_TOOLS ==
    <<"ambari_clusters_getclusters", "ambari_clusters_getcluster",
      "ambari_clusters_createcluster", "ambari_services_getservices",
      "ambari_services_getservice", "ambari_hosts_gethosts",
      "ambari_hosts_gethost", "ambari_alerts_gettargets",
      "ambari_alerts_getalerts", "ambari_alerts_getalertsummary",
      "ambari_alerts_getalertdetails", "ambari_alerts_getalertdefinitions",
      "ambari_alerts_updatealertdefinition", "ambari_alerts_getalertgroups",
      "ambari_alerts_createalertgroup", "ambari_alerts_updatealertgroup",
      "ambari_alerts_deletealertgroup", "ambari_alerts_duplicatealertgroup",
      "ambari_alerts_adddefinitiontogroup",
      "ambari_alerts_removedefinitionfromgroup",
      "ambari_alerts_getnotifications", "ambari_alerts_createnotification",
      "ambari_alerts_updatenotification", "ambari_alerts_deletenotification",
      "ambari_alerts_addnotificationtogroup",
      "ambari_alerts_removenotificationfromgroup",
      "ambari_alerts_savealertsettings",
      "ambari_services_getserviceswithstaleconfigs",
      "ambari_services_gethostcomponentswithstaleconfigs",
      "ambari_services_restartservice", "ambari_services_restartcomponents",
      "ambari_services_getservicestate", "ambari_services_startservice",
      "ambari_services_stopservice",
      "ambari_services_getrollingrestartstatus",
      "ambari_services_enablemaintenancemode",
      "ambari_services_disablemaintenancemode",
      "ambari_services_runservicecheck",
      "ambari_services_isservicechecksupported",
      "ambari_services_getservicecheckstatus">>

(* AMBARI_TOOLS.find(tool => tool.name === name): the first entry of that  *)
(* name, undefined when there is none.                                     *)
ToolDefinition(name) ==
    IF \E i \in 1..Len(AMBARI_TOOLS) : AMBARI_TOOLS[i] = name
    THEN Str(name)
    ELSE Undef

(* The own keys of toolExecutors. *)
ToolExecutorNames ==
    {"ambari_clusters_getclusters", "ambari_clusters_getcluster",
     "ambari_clusters_createcluster", "ambari_services_getservices",
     "ambari_services_getservice", "ambari_hosts_gethosts",
     "ambari_hosts_gethost", "ambari_alerts_gettargets",
     "ambari_alerts_getalerts", "ambari_alerts_getalertsummary",
     "ambari_alerts_getalertdetails", "ambari_alerts_getalertdefinitions",
     "ambari_alerts_updatealertdefinition", "ambari_alerts_getalertgroups",
     "ambari_alerts_createalertgroup", "ambari_alerts_updatealertgroup",
     "ambari_alerts_deletealertgroup", "ambari_alerts_duplicatealertgroup",
     "ambari_alerts_adddefinitiontogroup",
     "ambari_alerts_removedefinitionfromgroup",
     "ambari_alerts_getnotifications", "ambari_alerts_createnotification",
     "ambari_alerts_updatenotification", "ambari_alerts_deletenotification",
     "ambari_alerts_addnotificationtogroup",
     "ambari_alerts_removenotificationfromgroup",
     "ambari_alerts_savealertsettings",
     "ambari_services_getserviceswithstaleconfigs",
     "ambari_services_gethostcomponentswithstaleconfigs",
     "ambari_services_restartservice", "ambari_services_restartcomponents",
     "ambari_services_getservicestate", "ambari_services_startservice",
     "ambari_services_stopservice", "ambari_services_getrollingrestartstatus",
     "ambari_services_enablemaintenancemode",
     "ambari_services_disablemaintenancemode",
     "ambari_services_runservicecheck",
     "ambari_services_isservicechecksupported",
     "ambari_services_getservicecheckstatus"}

(* toolExecutors[name]: the executor of an own key, the inherited member   *)
(* of a key every object has, undefined otherwise.                         *)
Executor(name) ==
    IF name \in ToolExecutorNames THEN [t |-> "function", own |-> TRUE, f |-> name]
    ELSE IF name \in ObjectPrototypeKeys
    THEN [t |-> "function", own |-> FALSE, f |-> name]
    ELSE Undef

(* args.k *)
Arg(args, k) == IF k \in DOMAIN args THEN args[k] ELSE Undef

Digit(d) ==
    CASE d = 0 -> "0" [] d = 1 -> "1" [] d = 2 -> "2" [] d = 3 -> "3"
      [] d = 4 -> "4" [] d = 5 -> "5" [] d = 6 -> "6" [] d = 7 -> "7"
      [] d = 8 -> "8" [] d = 9 -> "9"

RECURSIVE NatToString(_)
NatToString(n) ==
    IF n < 10 THEN Digit(n) ELSE NatToString(n \div 10) \o Digit(n % 10)

(* Number.prototype.toString for an integer *)
NumberToString(n) == IF n < 0 THEN "-" \o NatToString(0 - n) ELSE NatToString(n)

(* String(x) of a template literal `${x}` *)
ToStr(x) ==
    CASE x.t = "string"    -> x.v
      [] x.t = "number"    -> NumberToString(x.v)
      [] x.t = "undefined" -> "undefined"
      [] x.t = "null"      -> "null"

(* The decimal numerals Number() is applied to. *)
Numerals == 0..20

(* Number(x) *)
ToNumber(x) ==
    CASE x.t = "number" -> x
      [] x.t = "null"   -> Num(0)
      [] x.t = "boolean" -> IF x.b THEN Num(1) ELSE Num(0)
      [] x.t = "string" ->
           IF x.v = "" THEN Num(0)
           ELSE IF \E n \in Numerals : NatToString(n) = x.v
           THEN Num(CHOOSE n \in Numerals : NatToString(n) = x.v)
           ELSE NaN
      [] OTHER -> NaN

SyntaxError(msg) == [exception |-> "SyntaxError", message |-> msg]

(* JSON.parse(text), on the texts the calls are made with: the decoded     *)
(* value, or the SyntaxError it throws.                                    *)
JSONParse(text) ==
    CASE text = "{}" -> EmptyObj
      [] text = "{\"Clusters\":{\"version\":\"HDP-3.1\"}}" ->
           Obj([Clusters |-> Obj([version |-> Str("HDP-3.1")])])
      [] text = "null" -> Null
      [] text = "" -> SyntaxError("Unexpected end of JSON input")
      [] text = "{Clusters:1}" ->
           SyntaxError("Expected property name or '}' in JSON at position 1")
      [] text = "{\"Clusters\":" -> SyntaxError("Unexpected end of JSON input")

(* typeof x === 'string' ? JSON.parse(x) : x *)
Decoded(x) == IF x.t = "string" THEN JSONParse(x.v) ELSE x

GetClusters(args) ==
    Request("GET", <<"", "clusters">>,
            SetIf(Truthy(Arg(args, "fields")), "fields", Arg(args, "fields"))
            @@ SetIf(Truthy(Arg(args, "sortBy")), "sortBy", Arg(args, "sortBy"))
            @@ SetIf(Truthy(Arg(args, "page_size")), "page_size",
                     Arg(args, "page_size"))
            @@ SetIf(Arg(args, "from") # Undef, "from", Arg(args, "from"))
            @@ SetIf(Arg(args, "to") # Undef, "to", Arg(args, "to")),
            Undef)

(* GetCluster asking for all fields when none are named. *)
GetClusterAllFields(args) ==
    Request("GET", <<"", "clusters", ToStr(Arg(args, "clusterName"))>>,
            "fields" :> OrElse(Arg(args, "fields"), Str("*")),
            Undef)

GetCluster(args) ==
    Request("GET", <<"", "clusters", ToStr(Arg(args, "clusterName"))>>,
            SetIf(Truthy(Arg(args, "fields")), "fields", Arg(args, "fields")),
            Undef)

GetAlertDetails(args) ==
    Request("GET", <<"", "clusters", ToStr(Arg(args, "clusterName")), "alerts">>,
            ("fields" :> Str("*"))
            @@ ("Alert/definition_id" :> Arg(args, "alertId"))
            @@ ("_" :> DateNow),
            Undef)

CreateCluster(args) ==
    LET body == Decoded(Arg(args, "body"))
    IN  IF IsException(body) THEN Throw(body)
        ELSE Request("POST", <<"", "clusters", ToStr(Arg(args, "clusterName"))>>,
                     NoParams, body)

(* DuplicateAlertGroupRead creating the group before its source is read. *)
DuplicateAlertGroupCreateFirst(args) ==
    Request("POST",
            <<"", "clusters", ToStr(Arg(args, "clusterName")), "alert_groups">>,
            NoParams,
            Obj([AlertGroup |-> Obj([name |-> Arg(args, "newGroupName"),
                                     definitions |-> Arr(<<>>)])]))

DuplicateAlertGroupRead(args) ==
    Request("GET",
            <<"", "clusters", ToStr(Arg(args, "clusterName")), "alert_groups",
              ToStr(Arg(args, "sourceGroupId"))>>,
            "fields" :> Str("*"),
            Undef)

(* ExtractDefinitionId pushing an object entry whole instead of its id. *)
ExtractDefinitionIdRaw(definitionIds, def) ==
    IF def.t \in {"number", "object"} THEN Append(definitionIds, def)
    ELSE definitionIds

(* The body of the forEach over sourceGroup.definitions. *)
ExtractDefinitionId(definitionIds, def) ==
    IF def.t = "number" THEN Append(definitionIds, def)
    ELSE IF def.t = "object" /\ "id" \in DOMAIN def.o
    THEN Append(definitionIds, ToNumber(def.o.id))
    ELSE definitionIds

RECURSIVE ExtractDefinitionIds(_, _)
ExtractDefinitionIds(defs, definitionIds) ==
    IF defs = <<>> THEN definitionIds
    ELSE ExtractDefinitionIds(Tail(defs),
                              ExtractDefinitionId(definitionIds, Head(defs)))

DuplicateAlertGroupWrite(args, response) ==
    IF response.data.t \in {"undefined", "null"}
    THEN Throw(TypeError("Cannot read properties of undefined (reading 'AlertGroup')"))
    ELSE LET sourceGroup == Get(response.data, "AlertGroup")
         IN  IF sourceGroup.t \in {"undefined", "null"}
             THEN Throw(TypeError("Cannot read properties of undefined (reading 'definitions')"))
             ELSE LET definitions == Get(sourceGroup, "definitions")
                  IN  IF Truthy(definitions) /\ definitions.t # "array"
                      THEN Throw(TypeError("sourceGroup.definitions.forEach is not a function"))
                      ELSE Request("POST",
                               <<"", "clusters", ToStr(Arg(args, "clusterName")),
                                 "alert_groups">>,
                               NoParams,
                               Obj([AlertGroup |->
                                    Obj([name |-> Arg(args, "newGroupName"),
                                         definitions |->
                                             Arr(IF Truthy(definitions)
                                                 THEN ExtractDefinitionIds(
                                                          definitions.a, <<>>)
                                                 ELSE <<>>)])]))

SaveAlertSettingsRead(args) ==
    Request("GET",
            <<"", "clusters", ToStr(Arg(args, "clusterName")), "configurations">>,
            ("type" :> Str("cluster-env")) @@ ("fields" :> Str("*")),
            Undef)

(* currentProperties after the read *)
CurrentProperties(response) ==
    IF HasItems(response) /\ Len(Get(response.data, "items").a) > 0
    THEN LET latestConfig == Get(response.data, "items").a[1]
         IN  OrElse(Get(latestConfig, "properties"), EmptyObj)
    ELSE EmptyObj

(* UpdatedProperties with the spread last, so that a current              *)
(* alerts_repeat_tolerance overrides the new one.                          *)
UpdatedPropertiesSpreadLast(currentProperties, tolerance) ==
    Obj(currentProperties.o
        @@ ("alerts_repeat_tolerance" :> Str(ToStr(tolerance))))

(* { ...currentProperties, alerts_repeat_tolerance: tolerance.toString() } *)
UpdatedProperties(currentProperties, tolerance) ==
    Obj(("alerts_repeat_tolerance" :> Str(ToStr(tolerance)))
        @@ currentProperties.o)

SaveAlertSettingsWrite(args, response) ==
    LET tolerance == Arg(args, "alertRepeatTolerance")
    IN  IF tolerance.t \in {"undefined", "null"}
        THEN Throw(TypeError("Cannot read properties of undefined (reading 'toString')"))
        ELSE Request("PUT", <<"", "clusters", ToStr(Arg(args, "clusterName"))>>,
                     NoParams,
                     Obj([Clusters |->
                          Obj([desired_config |->
                               Obj([type |-> Str("cluster-env"),
                                    properties |->
                                        UpdatedProperties(CurrentProperties(response),
                                                          tolerance)])])]))

StaleConfigsFields ==
    "ServiceInfo/service_name,ServiceInfo/state,ServiceInfo/maintenance_state,components/ServiceComponentInfo/component_name,components/ServiceComponentInfo/category,components/host_components/HostRoles/state,components/host_components/HostRoles/stale_configs,components/host_components/HostRoles/host_name,components/host_components/HostRoles/component_name"

GetServicesWithStaleConfigsRead(args) ==
    LET params == ("fields" :> Str(StaleConfigsFields)) @@ ("_" :> DateNow)
        cluster == ToStr(Arg(args, "clusterName"))
    IN  IF Truthy(Arg(args, "serviceName"))
        THEN Request("GET", <<"", "clusters", cluster, "services",
                              ToStr(Arg(args, "serviceName"))>>, params, Undef)
        ELSE Request("GET", <<"", "clusters", cluster, "services">>, params, Undef)

(* xs?.some(test): undefined when xs is missing *)
SomeOf(xs, test(_)) ==
    IF xs.t = "array" THEN \E i \in 1..Len(xs.a) : test(xs.a[i]) ELSE FALSE

(* hostComponent.HostRoles?.stale_configs === true *)
IsStale(hostComponent) ==
    Get(Get(hostComponent, "HostRoles"), "stale_configs") = Bool(TRUE)

(* The filter's test of a service. *)
HasStaleHostComponent(service) ==
    SomeOf(Get(service, "components"),
           LAMBDA component : SomeOf(Get(component, "host_components"), IsStale))

(* The executor after its await. *)
GetServicesWithStaleConfigs(args, response) ==
    IF Truthy(Arg(args, "serviceName")) THEN Return(response)
    ELSE IF Truthy(Arg(args, "onlyStaleConfigs"))
    THEN IF response.data.t \in {"undefined", "null"}
         THEN Throw(TypeError("Cannot read properties of undefined (reading 'items')"))
         ELSE IF Get(response.data, "items").t # "array"
         THEN Throw(TypeError("Cannot read properties of undefined (reading 'filter')"))
         ELSE Return([response EXCEPT !.data =
                         Obj(("items" :> Arr(SelectSeq(Get(response.data, "items").a,
                                                       HasStaleHostComponent)))
                             @@ response.data.o)])
    ELSE Return(response)

(* Both maintenance-mode executors; state is 'ON' or 'OFF', verb 'Enable'  *)
(* or 'Disable'.  The host component is addressed only when a component    *)
(* and a host are both named.                                              *)
MaintenanceMode(args, state, verb) ==
    LET cluster == ToStr(Arg(args, "clusterName"))
    IN  IF Truthy(Arg(args, "componentName")) /\ Truthy(Arg(args, "hostName"))
        THEN Request("PUT",
                     <<"", "clusters", cluster, "hosts", ToStr(Arg(args, "hostName")),
                       "host_components", ToStr(Arg(args, "componentName"))>>,
                     NoParams,
                     Obj([HostRoles |-> Obj([maintenance_state |-> Str(state)])]))
        ELSE Request("PUT",
                     <<"", "clusters", cluster, "services",
                       ToStr(Arg(args, "serviceName"))>>,
                     NoParams,
                     Obj([RequestInfo |->
                            Obj([context |-> Str(verb \o " Maintenance Mode via MCP")]),
                          Body |->
                            Obj([ServiceInfo |->
                                   Obj([maintenance_state |-> Str(state)])])]))

(* The services whose check has no operation level (client-only ones). *)
ClientOnlyServices == {"TEZ", "SQOOP", "KERBEROS"}

OperationLevel(args) ==
    Obj([level |-> Str("CLUSTER"), cluster_name |-> Arg(args, "clusterName")])

ResourceFilters(args) == Arr(<<Obj([service_name |-> Arg(args, "serviceName")])>>)

ServiceCheckContext(args) ==
    OrElse(Arg(args, "context"),
           Str(ToStr(Arg(args, "serviceName")) \o " Service Check"))

(* RunServiceCheck with the quorum check also run without an operation     *)
(* level.                                                                  *)
RunServiceCheckFlat(args) ==
    LET service == Arg(args, "serviceName")
        command == IF service = Str("ZOOKEEPER")
                   THEN ToStr(service) \o "_QUORUM_SERVICE_CHECK"
                   ELSE ToStr(service) \o "_SERVICE_CHECK"
        info == [command |-> Str(command), context |-> ServiceCheckContext(args)]
        level == IF service \in {Str(n) : n \in ClientOnlyServices \cup {"ZOOKEEPER"}}
                 THEN NoParams
                 ELSE "operation_level" :> OperationLevel(args)
    IN  Request("POST",
                <<"", "clusters", ToStr(Arg(args, "clusterName")), "requests">>,
                NoParams,
                Obj(("RequestInfo" :> Obj(info @@ level))
                    @@ ("Requests/resource_filters" :> ResourceFilters(args))))

RunServiceCheck(args) ==
    LET service == Arg(args, "serviceName")
        command == IF service = Str("ZOOKEEPER")
                   THEN ToStr(service) \o "_QUORUM_SERVICE_CHECK"
                   ELSE ToStr(service) \o "_SERVICE_CHECK"
        info == [command |-> Str(command), context |-> ServiceCheckContext(args)]
        level == IF service \in {Str(n) : n \in ClientOnlyServices}
                 THEN NoParams
                 ELSE "operation_level" :> OperationLevel(args)
    IN  Request("POST",
                <<"", "clusters", ToStr(Arg(args, "clusterName")), "requests">>,
                NoParams,
                Obj(("RequestInfo" :> Obj(info @@ level))
                    @@ ("Requests/resource_filters" :> ResourceFilters(args))))

(* toolExecutors[name](args), up to its first await *)
ToolStart(name, args) ==
    CASE name = "ambari_clusters_getclusters"     -> GetClusters(args)
      [] name = "ambari_clusters_getcluster"      -> GetCluster(args)
      [] name = "ambari_alerts_getalertdetails"   -> GetAlertDetails(args)
      [] name = "ambari_alerts_savealertsettings" -> SaveAlertSettingsRead(args)
      [] name = "ambari_clusters_createcluster"   -> CreateCluster(args)
      [] name = "ambari_alerts_duplicatealertgroup" -> DuplicateAlertGroupRead(args)
      [] name = "ambari_services_getserviceswithstaleconfigs" ->
           GetServicesWithStaleConfigsRead(args)
      [] name = "ambari_services_enablemaintenancemode" ->
           MaintenanceMode(args, "ON", "Enable")
      [] name = "ambari_services_disablemaintenancemode" ->
           MaintenanceMode(args, "OFF", "Disable")
      [] name = "ambari_services_runservicecheck" -> RunServiceCheck(args)

(* ToolResume with save-alert-settings reading the configuration back      *)
(* after its write.                                                        *)
ToolResumeReadBack(name, args, n, response) ==
    IF name = "ambari_alerts_savealertsettings" /\ n = 1
    THEN SaveAlertSettingsWrite(args, response)
    ELSE IF name = "ambari_alerts_savealertsettings" /\ n = 2
    THEN SaveAlertSettingsRead(args)
    ELSE IF name = "ambari_alerts_duplicatealertgroup" /\ n = 1
    THEN DuplicateAlertGroupWrite(args, response)
    ELSE IF name = "ambari_services_getserviceswithstaleconfigs"
    THEN GetServicesWithStaleConfigs(args, response)
    ELSE Return(response)

(* toolExecutors[name](args), resumed with the result of its n-th request *)
ToolResume(name, args, n, response) ==
    IF name = "ambari_alerts_savealertsettings" /\ n = 1
    THEN SaveAlertSettingsWrite(args, response)
    ELSE IF name = "ambari_alerts_duplicatealertgroup" /\ n = 1
    THEN DuplicateAlertGroupWrite(args, response)
    ELSE IF name = "ambari_services_getserviceswithstaleconfigs"
    THEN GetServicesWithStaleConfigs(args, response)
    ELSE Return(response)

(***************************************************************************)
(* The request handlers.                                                   *)
(***************************************************************************)
IsMcpError(e) == "error" \in DOMAIN e

(* The call-tool handler up to the executor's first await. *)
CallToolStart(name, args) ==
    IF ~Truthy(Executor(name))
    THEN Throw(McpError("MethodNotFound",
                        [prefix |-> "Unknown tool", about |-> name], Undef))
    ELSE IF ~Truthy(ToolDefinition(name))
    THEN Throw(McpError("InternalError",
                        [prefix |-> "executor exists but tool definition is missing",
                         about |-> name], Undef))
    ELSE ToolStart(name, args)

(* CallToolCatch without the instanceof McpError test: every error is     *)
(* wrapped.                                                                *)
CallToolCatchWrapAll(name, e) ==
    IF "response" \in DOMAIN e
    THEN McpError("InternalError",
                  [prefix |-> "Ambari API Error", about |-> e.message],
                  [httpStatus |-> e.response.status])
    ELSE McpError("InternalError",
                  [prefix |-> "Tool execution failed for", about |-> name,
                   originalError |-> e.message],
                  [tool |-> name, originalError |-> e.message])

(* The catch block of the call-tool handler. *)
CallToolCatch(name, e) ==
    IF IsMcpError(e) THEN e
    ELSE IF "response" \in DOMAIN e
    THEN McpError("InternalError",
                  [prefix |-> "Ambari API Error", about |-> e.message],
                  [httpStatus |-> e.response.status])
    ELSE McpError("InternalError",
                  [prefix |-> "Tool execution failed for", about |-> name,
                   originalError |-> e.message],
                  [tool |-> name, originalError |-> e.message])

CallToolResult(name, result) ==
    [content |-> [tool |-> name, executionTimeMs |-> "elapsed",
                  timestamp |-> "now", result |-> result],
     isError |-> FALSE]

(* The read-resource handler up to the handler's first await. *)
ReadResourceStart(u) ==
    LET parsedUri == parseResourceUri(u)
    IN  IF IsError(parsedUri) THEN Throw(parsedUri)
        ELSE IF parsedUri.type \notin HandlerKinds
        THEN Throw(McpError("InvalidRequest",
                            [prefix |-> "Unsupported resource type",
                             about |-> parsedUri.type], Undef))
        ELSE HandlerRequest(parsedUri)

(* ReadResourceCatch letting every error through as it is. *)
ReadResourceCatchRethrow(u, e) == e

(* The catch block of the read-resource handler. *)
ReadResourceCatch(u, e) ==
    IF IsMcpError(e) THEN e
    ELSE McpError("InternalError",
                  [prefix |-> "Resource access failed for", about |-> u,
                   originalError |-> e.message],
                  [uri |-> u, originalError |-> e.message])

(* { uri, executionTimeMs, timestamp, ...result } *)
ReadResourceResult(u, result) ==
    [contents |-> [uri |-> u, mimeType |-> "application/json",
                   text |-> result @@ [uri |-> u, executionTimeMs |-> "elapsed",
                                       timestamp |-> "now"]]]

Placeholders == {"{clusterName}", "{serviceName}", "{hostName}"}

NotParsed == [notparsed |-> TRUE]

NoRequest == [kind |-> "none"]

NoOutcome == [pending |-> TRUE]

(* The invocations that run interleaved, and the handler state of one that *)
(* has not begun.                                                          *)
InvocationIds == {1, 2}

NotStarted ==
    [pc |-> "idle", req |-> NoRequest, parsed |-> NotParsed, calls |-> <<>>,
     sent |-> <<>>, got |-> <<>>, outcome |-> NoOutcome]

(***************************************************************************)
(* Inputs.  A URI starts as an instance of a published template and is     *)
(* then edited (a segment replaced, inserted or deleted) up to MaxEdits    *)
(* times, which yields the recognized shapes, their near misses (trailing  *)
(* segments, empty names, wrong scheme) and unrelated strings.             *)
(***************************************************************************)
Instance(t) == [i \in 1..Len(t) |-> IF t[i] \in Placeholders THEN "x" ELSE t[i]]

(* Argument bags of the tool calls. *)
Bags(keys, values) ==
    UNION {[ks -> values] : ks \in SUBSET keys}

(* The tools whose executors are modelled (ToolStart, ToolResume). *)
ModelledTools ==
    {"ambari_clusters_getclusters", "ambari_clusters_getcluster",
     "ambari_clusters_createcluster", "ambari_alerts_getalertdetails",
     "ambari_alerts_duplicatealertgroup", "ambari_alerts_savealertsettings",
     "ambari_services_getserviceswithstaleconfigs",
     "ambari_services_enablemaintenancemode",
     "ambari_services_disablemaintenancemode",
     "ambari_services_runservicecheck"}

(* The names calls are made with: the modelled tools, a name nothing       *)
(* defines and a name every object inherits.                               *)
ToolNames == ModelledTools \cup {"ambari_unknown_tool", "constructor"}

(* The JSON-encoded arguments calls are made with. *)
JsonTexts ==
    {"{}", "{\"Clusters\":{\"version\":\"HDP-3.1\"}}", "null", "",
     "{Clusters:1}", "{\"Clusters\":"}

Tolerances == {Num(-1), Num(0), Num(5), Num(10), Str("7")}

ToolArgs(name) ==
    CASE name = "ambari_clusters_getclusters" ->
           Bags({"fields", "from"}, {Str(""), Str("Clusters/*")})
           \cup Bags({"from", "to"}, {Num(0), Num(5), Null})
      [] name = "ambari_clusters_getcluster" ->
           {b @@ ("clusterName" :> Str("prod")) :
               b \in Bags({"fields"}, {Str(""), Str("Clusters/*")})}
      [] name = "ambari_alerts_getalertdetails" ->
           {b @@ ("clusterName" :> Str("prod")) : b \in Bags({"alertId"}, {Num(7)})}
      [] name = "ambari_alerts_savealertsettings" ->
           {b @@ ("clusterName" :> Str("prod")) :
               b \in Bags({"alertRepeatTolerance"}, Tolerances)}
      [] name = "ambari_clusters_createcluster" ->
           {b @@ ("clusterName" :> Str("prod")) :
               b \in Bags({"body"}, {Str(text) : text \in JsonTexts}
                                    \cup {Obj([Clusters |-> EmptyObj])})}
      [] name = "ambari_alerts_duplicatealertgroup" ->
           {[clusterName |-> Str("prod"), sourceGroupId |-> Num(4),
             newGroupName |-> Str("copy")]}
      [] name = "ambari_services_getserviceswithstaleconfigs" ->
           {b @@ ("clusterName" :> Str("prod")) :
               b \in Bags({"serviceName"}, {Str("HDFS")})}
           \cup {b @@ ("clusterName" :> Str("prod")) :
                    b \in Bags({"onlyStaleConfigs"}, {Bool(TRUE), Bool(FALSE)})}
      [] name \in {"ambari_services_enablemaintenancemode",
                   "ambari_services_disablemaintenancemode"} ->
           {b @@ [clusterName |-> Str("prod"), serviceName |-> Str("HDFS")] :
               b \in [{"componentName"} -> {Str("DATANODE")}]
                     \cup [{"hostName"} -> {Str("h1")}]
                     \cup {NoParams,
                           [componentName |-> Str("DATANODE"), hostName |-> Str("h1")],
                           [componentName |-> Str("DATANODE"), hostName |-> Str("")]}}
      [] name = "ambari_services_runservicecheck" ->
           {[clusterName |-> Str("prod"), serviceName |-> Str(n)] @@ b :
               n \in ClientOnlyServices \cup {"ZOOKEEPER", "HDFS", "zookeeper"},
               b \in Bags({"context"}, {Str("nightly check")})}
      [] OTHER -> {NoParams}

(* Bodies the upstream may answer with. *)
Lists(kinds, max) == UNION {[1..n -> kinds] : n \in 0..max}

(* An item of an upstream list: its own href and, unless missing, the      *)
(* object named key.                                                       *)
Item(i, key, value) ==
    Obj(("href" :> Str(NatToString(i)))
        @@ (IF value = Undef THEN NoParams ELSE key :> value))

ItemsBody(key, kindsList) ==
    Obj([items |-> Arr([i \in 1..Len(kindsList) |-> Item(i, key, kindsList[i])])])

ListBodies(key, kinds) ==
    {Null, EmptyObj} \cup {ItemsBody(key, l) : l \in Lists(kinds, MaxItems)}

AlertKinds ==
    {Undef, EmptyObj}
    \cup {Obj([state |-> Str(s)]) :
             s \in AlertStates \cup {"SKIPPED", "", "constructor"}}

HostRolesKinds ==
    {Undef, EmptyObj}
    \cup {Obj([service_name |-> Str(s)]) : s \in {"HDFS", "YARN", "", "constructor"}}

(* The entries of a source group's definition list: a raw number, an     *)
(* object with an id (a number or a numeral), an object without one, a    *)
(* string, null.                                                           *)
DefinitionKinds ==
    {Num(3), Obj([id |-> Num(7)]), Obj([id |-> Str("9")]),
     Obj([name |-> Str("hdfs_alert")]), Str("5"), Null}

AlertGroupBodies ==
    {Null, EmptyObj, Obj([AlertGroup |-> Obj([id |-> Num(4)])])}
    \cup {Obj([AlertGroup |-> Obj([id |-> Num(4), definitions |-> Arr(l)])]) :
              l \in Lists(DefinitionKinds, MaxItems)}

(* The host components of a service's single component: one with stale   *)
(* configuration, one without, one whose flag is the string "true".       *)
HostComponent(flag) == Obj([HostRoles |-> Obj([stale_configs |-> flag])])

Service(name, hostComponents) ==
    Obj([ServiceInfo |-> Obj([service_name |-> Str(name)]),
         components |-> Arr(<<Obj([host_components |-> Arr(hostComponents)])>>)])

ServiceKinds ==
    {Service("HDFS", <<HostComponent(Bool(FALSE)), HostComponent(Bool(TRUE))>>),
     Service("YARN", <<HostComponent(Bool(FALSE))>>),
     Service("TEZ", <<HostComponent(Str("true"))>>),
     Obj([ServiceInfo |-> Obj([service_name |-> Str("KERBEROS")])])}

ServiceListBodies ==
    {Null, EmptyObj}
    \cup {Obj([items |-> Arr(l)]) : l \in Lists(ServiceKinds, MaxItems)}

PropertyMaps ==
    Bags({"a", "alerts_repeat_tolerance"}, {Str("1"), Str("2")})

ConfigKinds == {EmptyObj} \cup {Obj([properties |-> Obj(P)]) : P \in PropertyMaps}

ConfigBodies ==
    {Null, EmptyObj}
    \cup {Obj([items |-> Arr(l)]) : l \in Lists(ConfigKinds, MaxConfigs)}

OpaqueBodies == {Obj([href |-> Str("http://localhost:8080/api/v1")])}

Bodies ==
    CASE req.kind = "read" /\ parsed.type = "alerts" ->
           ListBodies("Alert", AlertKinds)
      [] req.kind = "read" /\ parsed.type = "stale-configs" ->
           ListBodies("HostRoles", HostRolesKinds)
      [] req.kind = "call" /\ req.name = "ambari_alerts_savealertsettings"
           /\ Len(sent) = 1 -> ConfigBodies
      [] req.kind = "call" /\ req.name = "ambari_alerts_duplicatealertgroup"
           /\ Len(sent) = 1 -> AlertGroupBodies
      [] req.kind = "call"
           /\ req.name = "ambari_services_getserviceswithstaleconfigs"
           /\ "serviceName" \notin DOMAIN req.args -> ServiceListBodies
      [] OTHER -> OpaqueBodies

(* validateStatus of the HTTP client; the request configuration sets none, *)
(* so the default applies: 2xx resolves, anything else rejects.            *)
ValidateStatus(status) == status >= 200 /\ status < 300

ResponseHeaders == [ContentType |-> "text/plain"]

(* What the upstream may answer a request with. *)
HttpAnswers ==
    {[status |-> Num(200), statusText |-> Str("OK"), data |-> b,
      headers |-> ResponseHeaders] : b \in Bodies}
    \cup
    {[status |-> Num(201), statusText |-> Str("Created"), data |-> Str(""),
      headers |-> ResponseHeaders],
     [status |-> Num(404), statusText |-> Str("Not Found"),
      data |-> Obj([status |-> Num(404), message |-> Str("not found")]),
      headers |-> ResponseHeaders],
     [status |-> Num(500), statusText |-> Str(""), data |-> Undef,
      headers |-> ResponseHeaders]}

(* The answers the HTTP client resolves with. *)
Responses == {r \in HttpAnswers : ValidateStatus(r.status.v)}

(* Failures of the HTTP client: a response outside 2xx, a connection       *)
(* failure with its code, a timeout (reported by code, or only by the      *)
(* message), or a failure with neither response nor code.                  *)
ErrorResponses == {r \in HttpAnswers : ~ValidateStatus(r.status.v)}

AxiosErrors ==
    {[response |-> r, code |-> c, message |-> MsgStatus] :
        r \in ErrorResponses, c \in {Undef, Str("ERR_BAD_RESPONSE")}}
    \cup
    {[response |-> NoResponse, code |-> Str("ECONNABORTED"), message |-> MsgAxiosTimeout],
     [response |-> NoResponse, code |-> Str("ETIMEDOUT"), message |-> MsgAxiosTimeout],
     [response |-> NoResponse, code |-> Str("ETIMEDOUT"), message |-> MsgSocketTimedOut],
     [response |-> NoResponse, code |-> Str("ECONNREFUSED"), message |-> MsgRefused],
     [response |-> NoResponse, code |-> Undef, message |-> MsgUpperTimeout],
     [response |-> NoResponse, code |-> Undef, message |-> MsgNetwork],
     [response |-> NoResponse, code |-> Undef, message |-> MsgError],
     [response |-> NoResponse, code |-> Undef, message |-> Undef]}

(***************************************************************************)
(* The state machine of one inbound request.                               *)
(***************************************************************************)
Init ==
    /\ uri = <<>>
    /\ edits = 0
    /\ pc = "idle"
    /\ req = NoRequest
    /\ parsed = NotParsed
    /\ calls = <<>>
    /\ sent = <<>>
    /\ got = <<>>
    /\ outcome = NoOutcome
    /\ store = NoParams
    /\ modified = 0
    /\ savers = <<>>
    /\ writes = <<>>
    /\ inflight = [i \in InvocationIds |-> NotStarted]

(* The state of the side-by-side invocations and of the upstream they      *)
(* share; a single request leaves it alone.                                *)
Shared == <<store, modified, savers, writes, inflight>>

Handling == <<pc, req, parsed, calls, sent, got, outcome>>

PickResource ==
    /\ pc = "idle" /\ uri = <<>>
    /\ \E k \in 1..Len(AMBARI_RESOURCES) : uri' = Instance(AMBARI_RESOURCES[k].uri)
    /\ UNCHANGED <<edits, Handling>>
    /\ UNCHANGED Shared

ReplaceSeg ==
    /\ pc = "idle" /\ uri # <<>> /\ edits < MaxEdits
    /\ \E i \in 1..Len(uri), w \in Segments :
          uri' = [uri EXCEPT ![i] = w]
    /\ edits' = edits + 1
    /\ UNCHANGED <<Handling, Shared>>

InsertSeg ==
    /\ pc = "idle" /\ uri # <<>> /\ edits < MaxEdits
    /\ \E i \in 0..Len(uri), w \in Segments :
          uri' = SubSeq(uri, 1, i) \o <<w>> \o Drop(uri, i)
    /\ edits' = edits + 1
    /\ UNCHANGED <<Handling, Shared>>

DeleteSeg ==
    /\ pc = "idle" /\ uri # <<>> /\ edits < MaxEdits
    /\ \E i \in 1..Len(uri) :
          uri' = SubSeq(uri, 1, i - 1) \o Drop(uri, i)
    /\ edits' = edits + 1
    /\ UNCHANGED <<Handling, Shared>>

(* The handler's catch block and result envelope, by kind of request. *)
Failure(r, e) ==
    IF r.kind = "read" THEN ReadResourceCatch(r.uri, e)
    ELSE CallToolCatch(r.name, e)

Success(r, v) ==
    IF r.kind = "read" THEN ReadResourceResult(r.uri, v)
    ELSE CallToolResult(r.name, v)

(* Carry on with what the handler does next: hand a request to the HTTP    *)
(* client and wait, or end with a result or an error.                      *)
Proceed(r, effect) ==
    IF effect.do = "request"
    THEN /\ calls' = Append(calls, effect)
         /\ sent' = Append(sent, AxiosConfig(effect.method, effect.path,
                                             effect.params, effect.body))
         /\ pc' = "awaiting"
         /\ outcome' = outcome
    ELSE /\ pc' = "done"
         /\ outcome' = IF effect.do = "return" THEN Success(r, effect.value)
                       ELSE Failure(r, effect.error)
         /\ UNCHANGED <<calls, sent>>

ReadResource ==
    /\ pc = "idle" /\ uri # <<>>
    /\ req' = [kind |-> "read", uri |-> uri]
    /\ parsed' = parseResourceUri(uri)
    /\ Proceed(req', ReadResourceStart(uri))
    /\ UNCHANGED <<uri, edits, got, Shared>>

CallTool ==
    /\ pc = "idle" /\ uri = <<>>
    /\ \E name \in ToolNames : \E args \in ToolArgs(name) :
          /\ req' = [kind |-> "call", name |-> name, args |-> args]
          /\ Proceed(req', CallToolStart(name, args))
    /\ UNCHANGED <<uri, edits, parsed, got, Shared>>

(* Respond with the invocation dropped when the answer arrives: the        *)
(* handler is never resumed.                                               *)
RespondDropped ==
    /\ pc = "awaiting"
    /\ \E response \in Responses :
          got' = Append(got, [ok |-> TRUE, response |-> response])
    /\ pc' = "cancelled"
    /\ UNCHANGED <<calls, sent, outcome>>
    /\ UNCHANGED <<uri, edits, req, parsed, Shared>>

(* The HTTP client resolves: executeAmbariRequest returns and the handler  *)
(* or executor runs to its next await or to its end.                       *)
Respond ==
    /\ pc = "awaiting"
    /\ \E response \in Responses :
          /\ got' = Append(got, [ok |-> TRUE, response |-> response])
          /\ Proceed(req,
                     IF req.kind = "read"
                     THEN HandlerResult(parsed, GatewayResult(response))
                     ELSE ToolResume(req.name, req.args, Len(sent),
                                     GatewayResult(response)))
    /\ UNCHANGED <<uri, edits, req, parsed, Shared>>

(* Fail with a gateway that sends the request once more after a timeout. *)
FailRetry ==
    /\ pc = "awaiting"
    /\ \E error \in AxiosErrors :
          /\ got' = Append(got, [ok |-> FALSE, error |-> error])
          /\ IF IsTimeout(error) /\ Len(sent) < 3
             THEN /\ sent' = Append(sent, sent[Len(sent)])
                  /\ UNCHANGED <<pc, calls, outcome>>
             ELSE Proceed(req, Throw(GatewayError(sent[Len(sent)],
                                                  calls[Len(calls)].params, error)))
    /\ UNCHANGED <<uri, edits, req, parsed, Shared>>

(* The HTTP client rejects: executeAmbariRequest throws its error, which   *)
(* no handler or executor catches before the request handler's catch.      *)
Fail ==
    /\ pc = "awaiting"
    /\ \E error \in AxiosErrors :
          /\ got' = Append(got, [ok |-> FALSE, error |-> error])
          /\ Proceed(req, Throw(GatewayError(sent[Len(sent)],
                                             calls[Len(calls)].params, error)))
    /\ UNCHANGED <<uri, edits, req, parsed, Shared>>

Next ==
    \/ PickResource
    \/ ReplaceSeg
    \/ InsertSeg
    \/ DeleteSeg
    \/ ReadResource
    \/ CallTool
    \/ Respond
    \/ Fail

Spec == Init /\ [][Next]_vars

(* One inbound request with an HTTP client that ends every call it is      *)
(* handed: by an answer, a transport failure or, at the latest, the        *)
(* timeout of TIMEOUT_MS set in the request configuration.  The upstream's *)
(* lists are short here: past empty or not, the length of a list changes   *)
(* no path through a handler or executor.                                  *)
MaxAnswerItems == 1

(* The length of the list an answer carries (items of a collection, the    *)
(* definitions of an alert group). *)
AnswerLength(data) ==
    LET items == Get(data, "items")
        definitions == Get(Get(data, "AlertGroup"), "definitions")
    IN  IF items.t = "array" THEN Len(items.a)
        ELSE IF definitions.t = "array" THEN Len(definitions.a)
        ELSE 0

ShortAnswers ==
    \A i \in 1..Len(got) :
        got[i].ok => AnswerLength(got[i].response.data) <= MaxAnswerItems

RespondShort == Respond /\ ShortAnswers'

(* The URI read is a template instance or one edit away from one.          *)
EditOnce ==
    /\ edits = 0
    /\ ReplaceSeg \/ InsertSeg \/ DeleteSeg

NextLive ==
    \/ PickResource
    \/ EditOnce
    \/ ReadResource
    \/ CallTool
    \/ RespondShort
    \/ Fail

SpecLive == Init /\ [][NextLive]_vars /\ WF_vars(RespondShort \/ Fail)

(***************************************************************************)
(* Save-alert-settings invocations side by side.  Each invocation is the   *)
(* executor's two steps (read the cluster-env configuration, write it back *)
(* with the tolerance merged in); the upstream holds one current set of    *)
(* cluster-env properties, answers the read with it and replaces it by the *)
(* properties of a PUT; another client may change it at any moment.        *)
(***************************************************************************)
SaverIds == {1, 2}

SaverArgs ==
    {[clusterName |-> Str("prod"), alertRepeatTolerance |-> t] :
        t \in {Num(5), Num(10)}}

(* The upstream's answer to GET /clusters/<c>/configurations?type=cluster-env *)
UpstreamConfigurations(properties) ==
    [status |-> Num(200), statusText |-> Str("OK"),
     data |-> Obj([items |-> Arr(<<Obj([type |-> Str("cluster-env"),
                                        properties |-> Obj(properties)])>>)]),
     headers |-> ResponseHeaders]

Single == <<uri, edits, pc, req, parsed, calls, sent, got, outcome>>

InitConcurrent ==
    /\ uri = <<>> /\ edits = 0 /\ pc = "idle" /\ req = NoRequest
    /\ parsed = NotParsed /\ calls = <<>> /\ sent = <<>> /\ got = <<>>
    /\ outcome = NoOutcome
    /\ store \in {NoParams, "a" :> Str("1"),
                  ("a" :> Str("1")) @@ ("alerts_repeat_tolerance" :> Str("1"))}
    /\ modified = 0
    /\ savers = [i \in SaverIds |-> [at |-> "idle", args |-> NoParams,
                                     request |-> Undef, response |-> Undef]]
    /\ writes = <<>>
    /\ inflight = [i \in InvocationIds |-> NotStarted]

(* An invocation begins: the executor issues its read. *)
StartSave(i) ==
    /\ savers[i].at = "idle"
    /\ \E args \in SaverArgs :
          savers' = [savers EXCEPT ![i] =
                        [at |-> "reading", args |-> args,
                         request |-> ToolStart("ambari_alerts_savealertsettings", args),
                         response |-> Undef]]
    /\ UNCHANGED <<Single, store, modified, writes, inflight>>

(* The read is answered with the upstream's properties of that moment. *)
ReadAnswered(i) ==
    /\ savers[i].at = "reading"
    /\ savers' = [savers EXCEPT ![i] =
                     [at |-> "writing", args |-> @.args,
                      request |-> ToolResume("ambari_alerts_savealertsettings",
                                             @.args, 1,
                                             GatewayResult(UpstreamConfigurations(store))),
                      response |-> GatewayResult(UpstreamConfigurations(store))]]
    /\ UNCHANGED <<Single, store, modified, writes, inflight>>

(* The PUT reaches the upstream, which replaces its properties. *)
WriteAnswered(i) ==
    /\ savers[i].at = "writing"
    /\ savers[i].request.do = "request"
    /\ LET submitted ==
              savers[i].request.body.o.Clusters.o.desired_config.o.properties.o
       IN  /\ writes' = Append(writes, [by |-> i, replaced |-> store,
                                        submitted |-> submitted])
           /\ store' = submitted
    /\ savers' = [savers EXCEPT ![i].at = "done"]
    /\ UNCHANGED <<Single, modified, inflight>>

(* Another client sets a property of the configuration. *)
Modify ==
    /\ modified < MaxModifications
    /\ \E k \in {"a", "b"}, v \in {Str("1"), Str("2")} :
          store' = (k :> v) @@ store
    /\ modified' = modified + 1
    /\ UNCHANGED <<Single, savers, writes, inflight>>

NextConcurrent ==
    \/ \E i \in SaverIds : StartSave(i)
    \/ \E i \in SaverIds : ReadAnswered(i)
    \/ \E i \in SaverIds : WriteAnswered(i)
    \/ Modify

SpecConcurrent == InitConcurrent /\ [][NextConcurrent]_vars

(***************************************************************************)
(* Several invocations interleaved at their await points.  Each has its    *)
(* own handler state (the locals of its async handler and executor); the   *)
(* handlers share the module's constants only.  A request is accepted, and *)
(* the HTTP client answers or fails the outstanding request of any waiting *)
(* invocation, in any order.                                               *)
(***************************************************************************)
InterleavedRequests ==
    {[kind |-> "read", uri |-> u] :
        u \in {<<"ambari:", "", "clusters">>,
               <<"ambari:", "", "cluster", "x", "alerts">>,
               <<"ambari:", "", "nowhere">>}}
    \cup
    {[kind |-> "call", name |-> name, args |-> args] :
        name \in {"ambari_clusters_getcluster", "ambari_alerts_duplicatealertgroup",
                  "ambari_unknown_tool"},
        args \in {[clusterName |-> Str("prod"), sourceGroupId |-> Num(4),
                   newGroupName |-> Str("copy")]}}
    \cup
    {[kind |-> "call", name |-> "ambari_alerts_savealertsettings", args |-> args] :
        args \in SaverArgs}

(* What the upstream answers, whatever the request: no body, a collection  *)
(* of one item, an alert group.                                            *)
InterleavedAnswers ==
    {[status |-> Num(200), statusText |-> Str("OK"), data |-> b,
      headers |-> ResponseHeaders] :
        b \in {Null,
               Obj([items |-> Arr(<<Obj([Alert |-> Obj([state |-> Str("CRITICAL")]),
                                         properties |-> Obj([a |-> Str("1")])])>>)]),
               Obj([AlertGroup |-> Obj([definitions |-> Arr(<<Num(3)>>)])])}}

InterleavedErrors ==
    {e \in AxiosErrors :
        e.response = NoResponse /\ e.code \in {Str("ECONNABORTED"), Str("ECONNREFUSED")}}

(* Proceed, on the handler state of one of several invocations. *)
Carried(inv, effect) ==
    IF effect.do = "request"
    THEN [inv EXCEPT !.calls = Append(@, effect),
                     !.sent = Append(@, AxiosConfig(effect.method, effect.path,
                                                    effect.params, effect.body)),
                     !.pc = "awaiting"]
    ELSE [inv EXCEPT !.pc = "done",
                     !.outcome = IF effect.do = "return"
                                 THEN Success(inv.req, effect.value)
                                 ELSE Failure(inv.req, effect.error)]

(* The handler state once request r is accepted and the handler has run to *)
(* its first await or to its end.                                          *)
Begun(r) ==
    Carried([NotStarted EXCEPT
                !.req = r,
                !.parsed = IF r.kind = "read" THEN parseResourceUri(r.uri)
                           ELSE NotParsed],
            IF r.kind = "read" THEN ReadResourceStart(r.uri)
            ELSE CallToolStart(r.name, r.args))

(* The request a handler that kept name and arguments in one place for all *)
(* invocations would resume with: that of the last tool call begun.        *)
LastCall ==
    LET begun == {j \in InvocationIds :
                     inflight[j].req.kind = "call"
                     /\ Truthy(Executor(inflight[j].req.name))}
    IN  inflight[CHOOSE j \in begun : \A k \in begun : k <= j].req

(* Settled with the executor resumed on name and arguments shared by all   *)
(* invocations.                                                            *)
SettledShared(inv, answer) ==
    Carried([inv EXCEPT !.got = Append(@, answer)],
            IF ~answer.ok
            THEN Throw(GatewayError(inv.sent[Len(inv.sent)],
                                    inv.calls[Len(inv.calls)].params, answer.error))
            ELSE IF inv.req.kind = "read"
            THEN HandlerResult(inv.parsed, GatewayResult(answer.response))
            ELSE ToolResume(LastCall.name, LastCall.args, Len(inv.sent),
                            GatewayResult(answer.response)))

(* The handler state after the HTTP client ended the outstanding request   *)
(* with the answer: the invocation resumes on its own locals.              *)
Settled(inv, answer) ==
    Carried([inv EXCEPT !.got = Append(@, answer)],
            IF ~answer.ok
            THEN Throw(GatewayError(inv.sent[Len(inv.sent)],
                                    inv.calls[Len(inv.calls)].params, answer.error))
            ELSE IF inv.req.kind = "read"
            THEN HandlerResult(inv.parsed, GatewayResult(answer.response))
            ELSE ToolResume(inv.req.name, inv.req.args, Len(inv.sent),
                            GatewayResult(answer.response)))

Accept(i) ==
    /\ inflight[i].pc = "idle"
    /\ \E r \in InterleavedRequests :
          inflight' = [inflight EXCEPT ![i] = Begun(r)]
    /\ UNCHANGED <<Single, store, modified, savers, writes>>

Answer(i) ==
    /\ inflight[i].pc = "awaiting"
    /\ \E response \in InterleavedAnswers :
          inflight' = [inflight EXCEPT
                          ![i] = Settled(@, [ok |-> TRUE, response |-> response])]
    /\ UNCHANGED <<Single, store, modified, savers, writes>>

Reject(i) ==
    /\ inflight[i].pc = "awaiting"
    /\ \E error \in InterleavedErrors :
          inflight' = [inflight EXCEPT
                          ![i] = Settled(@, [ok |-> FALSE, error |-> error])]
    /\ UNCHANGED <<Single, store, modified, savers, writes>>

NextInterleaved ==
    \/ \E i \in InvocationIds : Accept(i)
    \/ \E i \in InvocationIds : Answer(i)
    \/ \E i \in InvocationIds : Reject(i)

SpecInterleaved == Init /\ [][NextInterleaved]_vars

(***************************************************************************)
(* The resource-URI grammar, read off the published templates: a URI is    *)
(* recognized when it is a template with every placeholder replaced by a   *)
(* name.  A name is one path segment: not empty, and (as a URI cannot hold *)
(* one) free of line terminators.                                          *)
(***************************************************************************)
IsName(seg) == seg # "" /\ ~HasLineTerminator(seg)

TemplateMatch(u, t) ==
    /\ Len(u) = Len(t)
    /\ \A i \in 1..Len(t) :
          IF t[i] \in Placeholders THEN IsName(u[i]) ELSE u[i] = t[i]

Recognized(u) ==
    \E k \in 1..Len(AMBARI_RESOURCES) : TemplateMatch(u, AMBARI_RESOURCES[k].uri)

(* The kind each published resource stands for. *)
KindOf(resourceName) ==
    CASE resourceName = "Ambari Clusters"        -> "clusters"
      [] resourceName = "Cluster Details"        -> "cluster"
      [] resourceName = "Cluster Services"       -> "services"
      [] resourceName = "Cluster Hosts"          -> "hosts"
      [] resourceName = "Cluster Alerts"         -> "alerts"
      [] resourceName = "Alert Summary"          -> "alerts-summary"
      [] resourceName = "Stale Configurations"   -> "stale-configs"
      [] resourceName = "Service Details"        -> "service"
      [] resourceName = "Service Components"     -> "service-components"
      [] resourceName = "Host Details"           -> "host"
      [] resourceName = "Recent Operations"      -> "recent-requests"
      [] resourceName = "Cluster Configurations" -> "configurations"

(* "{clusterName}" -> "clusterName" *)
ParamName(placeholder) ==
    CASE placeholder = "{clusterName}" -> "clusterName"
      [] placeholder = "{serviceName}" -> "serviceName"
      [] placeholder = "{hostName}"    -> "hostName"

(* The descriptor a recognized URI stands for: the kind of its template    *)
(* and the template's placeholders bound to the URI's names.               *)
DescriptorOf(u, resource) ==
    LET t == resource.uri
        at == {i \in 1..Len(t) : t[i] \in Placeholders}
    IN  [type |-> KindOf(resource.name)]
        @@ [n \in {ParamName(t[i]) : i \in at} |->
               <<u[CHOOSE i \in at : ParamName(t[i]) = n]>>]

Reading == req.kind = "read"

(* C1: a URI that is not of a recognized shape makes parseResourceUri fail *)
(* with InvalidRequest; it never yields a descriptor.                      *)
C1_UnrecognizedUriIsRejected ==
    (Reading /\ ~Recognized(req.uri))
        => (IsError(parsed) /\ parsed.error = "InvalidRequest")

(* C2: a recognized URI parses to the descriptor of exactly its template's *)
(* kind with exactly the template's path parameters; the longer literal    *)
(* shapes (alerts/summary, services/stale-configs, service/Y/components)   *)
(* resolve to their own kinds.                                             *)
C2_RecognizedUriParsesToItsKind ==
    Reading =>
        \A k \in 1..Len(AMBARI_RESOURCES) :
            TemplateMatch(req.uri, AMBARI_RESOURCES[k].uri)
                => parsed = DescriptorOf(req.uri, AMBARI_RESOURCES[k])

C2_Witness ==
    /\ Reading
    /\ req.uri = <<"ambari:", "", "cluster", "x", "alerts", "summary">>
    /\ parsed = [type |-> "alerts-summary", clusterName |-> <<"x">>]

(* The parameters each kind of descriptor needs. *)
RequiredParams(kind) ==
    CASE kind = "clusters" -> {}
      [] kind = "host" -> {"hostName"}
      [] kind \in {"service", "service-components"} -> {"clusterName", "serviceName"}
      [] OTHER -> {"clusterName"}

(* C3: every descriptor parseResourceUri returns has a kind with a         *)
(* registered handler and carries each parameter its kind needs as one     *)
(* non-empty path segment; the read never ends in "Unsupported resource    *)
(* type".                                                                  *)
C3_DescriptorIsWellFormed ==
    (Reading /\ ~IsError(parsed)) =>
        /\ parsed.type \in HandlerKinds
        /\ \A n \in RequiredParams(parsed.type) :
              /\ n \in DOMAIN parsed
              /\ Len(parsed[n]) = 1
              /\ parsed[n][1] # ""
        /\ (pc = "done" /\ IsMcpError(outcome)
              => outcome.message.prefix # "Unsupported resource type")

(***************************************************************************)
(* Reads of the two aggregating resources that got an upstream answer.     *)
(***************************************************************************)
ReadDone(kind) ==
    /\ Reading /\ pc = "done" /\ ~IsError(parsed) /\ parsed.type = kind
    /\ Len(got) = 1 /\ got[1].ok

(* The handler returned (it did not throw). *)
Returned == pc = "done" /\ ~IsMcpError(outcome)

(* The upstream list the handler iterated over. *)
UpstreamItems ==
    LET items == Get(got[1].response.data, "items")
    IN  IF items.t = "array" THEN items.a ELSE <<>>

AlertStateOf(item) == Get(Get(item, "Alert"), "state")

(* C4: the alerts handler's four buckets partition the upstream list: they *)
(* are pairwise disjoint, their counts add up to the length of the list,   *)
(* and an item whose state is missing or not one of the four known values  *)
(* is in UNKNOWN.                                                          *)
C4_AlertBucketsPartitionTheList ==
    (ReadDone("alerts") /\ Returned) =>
        LET result == outcome.contents.text
            items  == UpstreamItems
        IN  /\ result.summary.critical + result.summary.warning
                 + result.summary.ok + result.summary.unknown = Len(items)
            /\ \A b1, b2 \in AlertStates :
                  b1 # b2 =>
                      \A i \in 1..Len(result.data[b1]), j \in 1..Len(result.data[b2]) :
                          result.data[b1][i] # result.data[b2][j]
            /\ \A i \in 1..Len(items) :
                  (AlertStateOf(items[i]) \notin {Str(b) : b \in AlertStates})
                      => \E j \in 1..Len(result.data["UNKNOWN"]) :
                            result.data["UNKNOWN"][j] = items[i]

(* What the HTTP client puts on the wire for a request configuration: it   *)
(* leaves out the parameters whose value is undefined or null.             *)
Transmitted(config) ==
    IF config.params = Undef THEN {}
    ELSE {k \in DOMAIN config.params :
             config.params[k].t \notin {"undefined", "null"}}

IsEmptyValue(v) == v.t \in {"undefined", "null"} \/ v = Str("")

(* C5: of the parameter mapping passed to executeAmbariRequest, a key with *)
(* an empty or undefined value is absent from the transmitted request and  *)
(* a key with a present value is transmitted with that value.              *)
C5_EmptyParamsAreStripped ==
    \A i \in 1..Len(calls) :
        \A k \in DOMAIN calls[i].params :
            IF IsEmptyValue(calls[i].params[k])
            THEN k \notin Transmitted(sent[i])
            ELSE k \in Transmitted(sent[i])
                 /\ sent[i].params[k] = calls[i].params[k]

(***************************************************************************)
(* Gateway failures.                                                       *)
(***************************************************************************)
GatewayFailure == pc = "done" /\ got # <<>> /\ ~got[Len(got)].ok

FailedWith == got[Len(got)].error

Tags(parts) == [i \in 1..(Len(parts) - 1) |-> parts[i + 1].tag]

NamesTheRequest(part) ==
    /\ part.tag = "request"
    /\ part.method = calls[Len(calls)].method
    /\ part.url = AMBARI_BASE_URL \o Tail(calls[Len(calls)].path)

(* The messages of the modelled failures that hold "timeout" in some       *)
(* letter case.                                                            *)
TimeoutMessages == {MsgAxiosTimeout, MsgUpperTimeout}

TimeoutDetected(e) == e.code = Str("ECONNABORTED") \/ e.message \in TimeoutMessages

(* C6 as stated: the summary is METHOD URL and exactly one cause tag, the  *)
(* first that applies of HTTP, Code, Timeout, No response.                 *)
C6_ExactlyOneCauseTag ==
    GatewayFailure =>
        LET e == FailedWith
            parts == outcome.message.summary
        IN  /\ NamesTheRequest(parts[1])
            /\ Tags(parts) =
                  << IF e.response # NoResponse THEN "HTTP"
                     ELSE IF e.code # Undef THEN "Code"
                     ELSE IF TimeoutDetected(e) THEN "Timeout"
                     ELSE "No response" >>

(* C6 as amended: the summary is METHOD URL, then exactly one of HTTP (the *)
(* upstream answered), Code (no answer, a connection code) and No response *)
(* (neither), and in addition Timeout whenever a timeout was detected,     *)
(* placed after HTTP or Code and before No response.                       *)
C6_PrimaryTagPlusTimeout ==
    GatewayFailure =>
        LET e == FailedWith
            parts == outcome.message.summary
            timeout == IF TimeoutDetected(e) THEN <<"Timeout">> ELSE <<>>
        IN  /\ NamesTheRequest(parts[1])
            /\ Tags(parts) =
                  IF e.response # NoResponse THEN <<"HTTP">> \o timeout
                  ELSE IF e.code # Undef THEN <<"Code">> \o timeout
                  ELSE timeout \o <<"No response">>

C6_Witness ==
    /\ GatewayFailure
    /\ FailedWith.code = Str("ECONNABORTED")
    /\ Tags(outcome.message.summary) = <<"Code", "Timeout">>

CauseTags == {"HTTP", "Code", "Timeout", "No response"}

HasSummary(e) ==
    /\ "summary" \in DOMAIN e.message
    /\ NamesTheRequest(e.message.summary[1])
    /\ Len(e.message.summary) >= 2
    /\ \A i \in 2..Len(e.message.summary) : e.message.summary[i].tag \in CauseTags

(* C7 as stated: every failure of an invocation carries a summary line     *)
(* that names the HTTP method, the URL and at least one cause tag.         *)
C7_EveryFailureHasSummary ==
    (pc = "done" /\ IsMcpError(outcome)) => HasSummary(outcome)

(* The identifier the inbound request is about. *)
Identifier == IF Reading THEN req.uri ELSE req.name

(* C7 as amended: every gateway failure is an InternalError whose summary  *)
(* names the HTTP method, the URL and at least one cause tag (HTTP, Code,  *)
(* Timeout or No response); a failure outside the gateway (unrecognized    *)
(* URI, unknown tool, exception in an executor or handler) has no such     *)
(* summary and names the offending URI or tool instead.                    *)
C7_GatewayFailureHasSummary ==
    (pc = "done" /\ IsMcpError(outcome)) =>
        IF GatewayFailure
        THEN outcome.error = "InternalError" /\ HasSummary(outcome)
        ELSE /\ "summary" \notin DOMAIN outcome.message
             /\ outcome.message.about = Identifier

C7_Witness ==
    /\ GatewayFailure
    /\ FailedWith.response = NoResponse /\ FailedWith.code = Undef
    /\ FailedWith.message = MsgNetwork
    /\ Tags(outcome.message.summary) = <<"No response">>

(* C8: a gateway failure is marked timeout = true in the diagnostics when  *)
(* its code is ECONNABORTED, and also when it has no such code and its     *)
(* message holds "timeout" in any letter case; otherwise the diagnostics   *)
(* carry no timeout mark.                                                  *)
C8_TimeoutClassification ==
    GatewayFailure =>
        LET e == FailedWith
            diagnostics == outcome.data.diagnostics
            marked == "timeout" \in DOMAIN diagnostics /\ diagnostics.timeout = TRUE
        IN  /\ e.code = Str("ECONNABORTED") => marked
            /\ (e.code # Str("ECONNABORTED") /\ e.message \in TimeoutMessages) => marked
            /\ (e.code # Str("ECONNABORTED") /\ e.message \notin TimeoutMessages)
                  => "timeout" \notin DOMAIN diagnostics

C8_Witness ==
    /\ GatewayFailure
    /\ FailedWith.code = Undef /\ FailedWith.message = MsgUpperTimeout
    /\ outcome.data.diagnostics.timeout = TRUE

ServiceNameOf(item) == Get(Get(item, "HostRoles"), "service_name")

(* The number of items in all groups together. *)
GroupedCount(groups) ==
    Cardinality(UNION {{<<s, i>> : i \in 1..Len(groups[s])} : s \in DOMAIN groups})

GroupedItems(groups) ==
    UNION {{groups[s][i] : i \in 1..Len(groups[s])} : s \in DOMAIN groups}

Range(seq) == {seq[i] : i \in 1..Len(seq)}

(* The items of seq whose service name is s, in order. *)
ItemsOfService(seq, s) == SelectSeq(seq, LAMBDA item : ServiceNameOf(item) = Str(s))

InheritedName(item) ==
    /\ ServiceNameOf(item).t = "string"
    /\ ServiceNameOf(item).v \in ObjectPrototypeKeys

SavingSettings ==
    /\ req.kind = "call" /\ req.name = "ambari_alerts_savealertsettings"
    /\ Len(sent) = 2

(* The cluster-env properties the read returned: those of the first        *)
(* configuration item, none when there is no item or it has no properties. *)
ReadProperties ==
    LET items == Get(got[1].response.data, "items")
    IN  IF items.t = "array" /\ Len(items.a) > 0
           /\ Get(items.a[1], "properties").t = "object"
        THEN Get(items.a[1], "properties").o
        ELSE NoParams

(* The decimal form of each tolerance the calls are made with. *)
ToleranceString(t) ==
    CASE t = Num(-1) -> "-1"
      [] t = Num(0)  -> "0"
      [] t = Num(5)  -> "5"
      [] t = Num(10) -> "10"
      [] t = Str("7") -> "7"

SubmittedProperties == sent[2].data.o.Clusters.o.desired_config.o.properties.o

(* C10: the properties save-alert-settings submits in its PUT are the      *)
(* properties P the read returned with alerts_repeat_tolerance set to the  *)
(* string form of the tolerance argument: every other key of P keeps its   *)
(* value, and with no configuration item the submitted properties are      *)
(* exactly {alerts_repeat_tolerance: string(t)}.                           *)
C10_SettingsMerge ==
    SavingSettings =>
        LET P == ReadProperties
            t == req.args.alertRepeatTolerance
            submitted == SubmittedProperties
        IN  /\ sent[2].method = "put"
            /\ DOMAIN submitted = DOMAIN P \cup {"alerts_repeat_tolerance"}
            /\ submitted["alerts_repeat_tolerance"] = Str(ToleranceString(t))
            /\ \A k \in DOMAIN P \ {"alerts_repeat_tolerance"} : submitted[k] = P[k]

C10_Witness ==
    /\ SavingSettings
    /\ req.args.alertRepeatTolerance = Num(10)
    /\ ReadProperties = [a |-> Str("1"), alerts_repeat_tolerance |-> Str("2")]
    /\ SubmittedProperties = [a |-> Str("1"), alerts_repeat_tolerance |-> Str("10")]

(***************************************************************************)
(* Duplicate-alert-group.                                                  *)
(***************************************************************************)
Duplicating ==
    /\ req.kind = "call" /\ req.name = "ambari_alerts_duplicatealertgroup"
    /\ Len(got) >= 1 /\ got[1].ok

(* The definition list of the source group the read returned. *)
SourceDefinitions ==
    LET definitions == Get(Get(got[1].response.data, "AlertGroup"), "definitions")
    IN  IF definitions.t = "array" THEN definitions.a ELSE <<>>

HasSourceDefinitions ==
    Get(Get(got[1].response.data, "AlertGroup"), "definitions").t = "array"

(* An entry that is a raw number or an object exposing a numeric id. *)
IsIdEntry(def) ==
    \/ def.t = "number"
    \/ /\ def.t = "object" /\ "id" \in DOMAIN def.o
       /\ def.o.id \in {Num(7), Str("9")}

(* The numeric ID such an entry stands for. *)
IdOf(def) ==
    CASE def = Num(3) -> 3
      [] def = Obj([id |-> Num(7)]) -> 7
      [] def = Obj([id |-> Str("9")]) -> 9

(* C11: when every entry of the source group's definition list is a raw    *)
(* number or an object exposing an id, duplicate-alert-group posts a group *)
(* whose definition list holds the numeric IDs of the entries, in the same *)
(* order and of the same length, and whose name is the new name supplied.  *)
C11_DuplicateExtractsIds ==
    (Duplicating /\ HasSourceDefinitions
       /\ \A i \in 1..Len(SourceDefinitions) : IsIdEntry(SourceDefinitions[i])) =>
        /\ Len(sent) = 2
        /\ sent[2].method = "post"
        /\ LET created == sent[2].data.o.AlertGroup.o
           IN  /\ created.name = req.args.newGroupName
               /\ created.definitions.t = "array"
               /\ Len(created.definitions.a) = Len(SourceDefinitions)
               /\ \A i \in 1..Len(SourceDefinitions) :
                     created.definitions.a[i] = Num(IdOf(SourceDefinitions[i]))

C11_Witness ==
    /\ Duplicating
    /\ SourceDefinitions = <<Num(3), Obj([id |-> Num(7)])>>
    /\ Len(sent) = 2
    /\ sent[2].data.o.AlertGroup.o.definitions = Arr(<<Num(3), Num(7)>>)
    /\ sent[2].data.o.AlertGroup.o.name = Str("copy")

(***************************************************************************)
(* Propagation of gateway failures.                                        *)
(***************************************************************************)
(* The i-th gateway call of the invocation failed. *)
CallFailed(i) == i \in 1..Len(got) /\ ~got[i].ok

IsSuccessEnvelope(o) == "contents" \in DOMAIN o \/ "isError" \in DOMAIN o

(* C12: when a gateway call of an invocation fails, the invocation ends    *)
(* with that call's gateway error, an InternalError with its summary and   *)
(* diagnostics, unchanged; it does not end with a success envelope.        *)
C12_GatewayFailureFailsInvocation ==
    \A i \in 1..Len(got) :
        CallFailed(i) =>
            /\ pc = "done"
            /\ ~IsSuccessEnvelope(outcome)
            /\ IsMcpError(outcome)
            /\ outcome.error = "InternalError"
            /\ outcome.message.prefix = "Ambari API Error"
            /\ "summary" \in DOMAIN outcome.message
            /\ "diagnostics" \in DOMAIN outcome.data
            /\ outcome = GatewayError(sent[i], calls[i].params, got[i].error)

(* A two-step executor whose second gateway call failed. *)
C12_Witness ==
    /\ req.kind = "call" /\ req.name = "ambari_alerts_savealertsettings"
    /\ Len(got) = 2 /\ got[1].ok /\ CallFailed(2)
    /\ pc = "done" /\ IsMcpError(outcome)
    /\ outcome.data.diagnostics.method = "PUT"

(***************************************************************************)
(* No retries.                                                             *)
(***************************************************************************)
(* C13: every call of executeAmbariRequest hands exactly one request to    *)
(* the HTTP client, whatever its end (a 2xx answer, another answer, a      *)
(* transport error, a timeout), and after a failed call the invocation     *)
(* issues no further request: the failed call is its last.                 *)
C13_OneRequestPerCallNoRetry ==
    /\ Len(sent) = Len(calls)
    /\ \A i \in 1..Len(sent) :
          /\ sent[i].url = Url(calls[i].path)
          /\ sent[i].method = ToLowerCase(calls[i].method)
    /\ Len(got) = IF pc = "awaiting" THEN Len(sent) - 1 ELSE Len(sent)
    /\ \A i \in 1..Len(got) :
          CallFailed(i) => (i = Len(sent) /\ pc = "done")

C13_Witness ==
    /\ req.kind = "call" /\ req.name = "ambari_alerts_duplicatealertgroup"
    /\ pc = "done"
    /\ Len(calls) = 1 /\ Len(sent) = 1 /\ CallFailed(1)
    /\ got[1].error.code = Str("ECONNABORTED")

(***************************************************************************)
(* The call-tool handler's validation of the tool name.                    *)
(***************************************************************************)
Calling == req.kind = "call"

(* A registered tool: an own key of toolExecutors. *)
Registered(name) == name \in ToolExecutorNames

CatalogEntries(name) == {i \in 1..Len(AMBARI_TOOLS) : AMBARI_TOOLS[i] = name}

(* C14: a call of a tool name that is not registered fails with            *)
(* MethodNotFound naming the tool, and makes no gateway call.              *)
C14_UnknownToolIsRejected ==
    (Calling /\ ~Registered(req.name)) =>
        /\ pc = "done"
        /\ IsMcpError(outcome)
        /\ outcome.error = "MethodNotFound"
        /\ outcome.message.about = req.name
        /\ calls = <<>> /\ sent = <<>>

(* C15: whatever tool name a call is made with, the handler either runs a  *)
(* registered executor that has a catalog entry or fails with              *)
(* MethodNotFound; no call ends in "executor exists but tool definition is *)
(* missing"; and every registered executor has exactly one catalog entry.  *)
C15_DefinitionMissingUnreachable ==
    /\ \A name \in ToolExecutorNames : Cardinality(CatalogEntries(name)) = 1
    /\ Calling =>
          /\ \/ Registered(req.name) /\ CatalogEntries(req.name) # {}
             \/ pc = "done" /\ IsMcpError(outcome)
                /\ outcome.error = "MethodNotFound"
          /\ (pc = "done" /\ IsMcpError(outcome)) =>
                outcome.message.prefix
                    # "executor exists but tool definition is missing"

(***************************************************************************)
(* Get-cluster, end to end.                                                *)
(***************************************************************************)
GettingCluster ==
    /\ Calling /\ req.name = "ambari_clusters_getcluster"
    /\ "clusterName" \in DOMAIN req.args
    /\ "fields" \notin DOMAIN req.args

IsSuccessStatus(status) == status.v \in 200..299

(* The upstream answered the i-th request with an HTTP response. *)
Answered(i) ==
    /\ i \in 1..Len(got)
    /\ \/ got[i].ok
       \/ got[i].error.response # NoResponse

AnswerOf(i) == IF got[i].ok THEN got[i].response ELSE got[i].error.response

(* The executors that hand the value of their last gateway call on as it  *)
(* is (get-services-with-stale-configs may filter its items first).        *)
PassesValueOn == req.name # "ambari_services_getserviceswithstaleconfigs"

(* C17: the gateway returns a value only for a 2xx answer, and the value   *)
(* is exactly {status, statusText, data} of that answer (seen in the       *)
(* result of a finished tool call that hands the value of its last gateway *)
(* call on); an answer outside 2xx is raised as the gateway's error, which *)
(* carries the answer's status, statusText and (when it has one) body, and *)
(* the invocation does not succeed.                                        *)
C17_GatewayReturnsOnly2xx ==
    /\ \A i \in 1..Len(got) :
          Answered(i) => (got[i].ok <=> IsSuccessStatus(AnswerOf(i).status))
    /\ (Calling /\ PassesValueOn /\ pc = "done" /\ ~IsMcpError(outcome)) =>
          /\ got[Len(got)].ok
          /\ DOMAIN outcome.content.result = {"status", "statusText", "data"}
          /\ outcome.content.result.status = got[Len(got)].response.status
          /\ outcome.content.result.statusText = got[Len(got)].response.statusText
          /\ outcome.content.result.data = got[Len(got)].response.data
    /\ \A i \in 1..Len(got) :
          (Answered(i) /\ ~IsSuccessStatus(AnswerOf(i).status)) =>
              /\ pc = "done" /\ IsMcpError(outcome)
              /\ outcome.data.diagnostics.status = AnswerOf(i).status
              /\ outcome.data.diagnostics.statusText = AnswerOf(i).statusText
              /\ Truthy(AnswerOf(i).data) =>
                    outcome.data.diagnostics.responseBody = AnswerOf(i).data

C17_Witness ==
    /\ Calling /\ req.name = "ambari_clusters_createcluster" /\ pc = "done"
    /\ Len(got) = 1 /\ ~got[1].ok
    /\ got[1].error.response # NoResponse
    /\ got[1].error.response.status = Num(404)
    /\ outcome.data.diagnostics.status = Num(404)
    /\ outcome.data.diagnostics.responseBody
          = Obj([status |-> Num(404), message |-> Str("not found")])

MalformedTexts == {"", "{Clusters:1}", "{\"Clusters\":"}

MalformedBody ==
    /\ Calling /\ req.name = "ambari_clusters_createcluster"
    /\ "body" \in DOMAIN req.args
    /\ req.args.body.t = "string"
    /\ req.args.body.v \in MalformedTexts

(* C19: a call whose JSON-encoded argument does not decode fails with      *)
(* InvalidRequest, and no gateway request is issued for it.                *)
C19_DecodeFailureIsInvalidRequest ==
    MalformedBody =>
        /\ pc = "done"
        /\ IsMcpError(outcome)
        /\ outcome.error = "InvalidRequest"
        /\ calls = <<>> /\ sent = <<>>

(***************************************************************************)
(* Save-alert-settings against a changing upstream.                        *)
(***************************************************************************)
(* C20: the properties a save-alert-settings invocation writes back hold   *)
(* every property other than alerts_repeat_tolerance that the upstream     *)
(* has at the moment of the write, however the invocation is interleaved   *)
(* with a second invocation or with another client's change.               *)
C20_WriteKeepsUpstreamProperties ==
    \A n \in 1..Len(writes) :
        \A k \in DOMAIN writes[n].replaced \ {"alerts_repeat_tolerance"} :
            k \in DOMAIN writes[n].submitted

(***************************************************************************)
(* The two-step executors: failures and ordering.                          *)
(***************************************************************************)
DuplicateCall ==
    req.kind = "call" /\ req.name = "ambari_alerts_duplicatealertgroup"

IsCreate(config) ==
    /\ config.method = "post"
    /\ config.url = Url(<<"", "clusters", ToStr(Arg(req.args, "clusterName")),
                          "alert_groups">>)

(* C21: in duplicate-alert-group, when the read of the source group fails  *)
(* the invocation ends with that error having issued no create request     *)
(* (its only request is the GET); when the read succeeds and the create    *)
(* fails, the invocation ends with the gateway error of the create, the    *)
(* POST to the cluster's alert_groups path: not an error of the read and   *)
(* not a success.                                                          *)
C21_DuplicateFailureHandling ==
    DuplicateCall =>
        /\ CallFailed(1) =>
              /\ Len(sent) = 1 /\ sent[1].method = "get"
              /\ \A i \in 1..Len(sent) : ~IsCreate(sent[i])
              /\ pc = "done" /\ IsMcpError(outcome)
        /\ (Len(got) = 2 /\ got[1].ok /\ CallFailed(2)) =>
              /\ IsCreate(sent[2])
              /\ pc = "done"
              /\ ~IsSuccessEnvelope(outcome)
              /\ outcome = GatewayError(sent[2], calls[2].params, got[2].error)
              /\ outcome # GatewayError(sent[1], calls[1].params, got[2].error)
              /\ outcome.data.diagnostics.method = "POST"
              /\ outcome.data.diagnostics.url = sent[2].url

(* The source group was read and the create then failed. *)
C21_Witness ==
    /\ DuplicateCall
    /\ Len(got) = 2 /\ got[1].ok /\ CallFailed(2)
    /\ pc = "done"
    /\ outcome.data.diagnostics.method = "POST"
    /\ outcome.data.diagnostics.url =
          AMBARI_BASE_URL \o <<"clusters", "prod", "alert_groups">>

TwoStepTools ==
    {"ambari_alerts_duplicatealertgroup", "ambari_alerts_savealertsettings"}

(* C22: duplicate-alert-group and save-alert-settings issue their read (a  *)
(* GET) first and their write (a POST, a PUT) second, the write only after *)
(* the read has succeeded, at most two requests in all, and no request     *)
(* after a failed one; every other tool call issues at most one request.   *)
C22_ReadThenWriteNoRollback ==
    Calling =>
        IF req.name \in TwoStepTools
        THEN /\ Len(sent) <= 2
             /\ Len(sent) >= 1 => sent[1].method = "get"
             /\ Len(sent) = 2 =>
                   /\ got[1].ok
                   /\ sent[2].method =
                         (IF req.name = "ambari_alerts_duplicatealertgroup"
                          THEN "post" ELSE "put")
             /\ \A i \in 1..Len(got) :
                   CallFailed(i) => (i = Len(sent) /\ pc = "done")
        ELSE Len(sent) <= 1

(* The write of save-alert-settings failed after its read succeeded: the   *)
(* invocation is over with two requests issued.                            *)
C22_Witness ==
    /\ Calling /\ req.name = "ambari_alerts_savealertsettings"
    /\ Len(sent) = 2 /\ sent[1].method = "get" /\ sent[2].method = "put"
    /\ got[1].ok /\ CallFailed(2)
    /\ pc = "done"

(***************************************************************************)
(* Totality of the two aggregations.                                       *)
(***************************************************************************)
InBucket(item, bucket) ==
    \E j \in 1..Len(bucket) : bucket[j] = item

(* C23: the alerts and stale-configs aggregations are total: whatever the  *)
(* upstream list (items without Alert or HostRoles, without a state or a   *)
(* service name, with any state or service-name string), the read returns  *)
(* and does not throw; an alert without a state is in the UNKNOWN bucket   *)
(* and a host component without a service name is in no group.             *)
C23_AggregationsAreTotal ==
    /\ ReadDone("alerts") =>
          /\ Returned
          /\ \A i \in 1..Len(UpstreamItems) :
                AlertStateOf(UpstreamItems[i]) = Undef =>
                    InBucket(UpstreamItems[i], outcome.contents.text.data["UNKNOWN"])
    /\ ReadDone("stale-configs") =>
          /\ Returned
          /\ \A i \in 1..Len(UpstreamItems) :
                ServiceNameOf(UpstreamItems[i]) = Undef =>
                    UpstreamItems[i] \notin GroupedItems(outcome.contents.text.data)

(***************************************************************************)
(* Run-service-check.                                                      *)
(***************************************************************************)
CheckingService ==
    /\ req.kind = "call" /\ req.name = "ambari_services_runservicecheck"
    /\ req.args.serviceName.t = "string"

(* C24: run-service-check issues exactly one request, a POST to the        *)
(* cluster's requests path, whose resource filter names the service and    *)
(* whose RequestInfo has one of three shapes: for ZOOKEEPER the command    *)
(* <service>_QUORUM_SERVICE_CHECK with a CLUSTER operation level; for TEZ, *)
(* SQOOP and KERBEROS the command <service>_SERVICE_CHECK and no           *)
(* operation_level; for any other name the command <service>_SERVICE_CHECK *)
(* with a CLUSTER operation level.                                         *)
C24_ServiceCheckShapes ==
    CheckingService =>
        LET service == req.args.serviceName.v
            info    == sent[1].data.o.RequestInfo.o
            cluster == [level |-> Str("CLUSTER"),
                        cluster_name |-> req.args.clusterName]
        IN  /\ Len(sent) = 1
            /\ sent[1].method = "post"
            /\ sent[1].url = AMBARI_BASE_URL
                                \o <<"clusters", req.args.clusterName.v, "requests">>
            /\ DOMAIN sent[1].data.o = {"RequestInfo", "Requests/resource_filters"}
            /\ sent[1].data.o["Requests/resource_filters"]
                  = Arr(<<Obj([service_name |-> Str(service)])>>)
            /\ CASE service = "ZOOKEEPER" ->
                       /\ info.command = Str(service \o "_QUORUM_SERVICE_CHECK")
                       /\ DOMAIN info = {"command", "context", "operation_level"}
                       /\ info.operation_level = Obj(cluster)
                  [] service \in {"TEZ", "SQOOP", "KERBEROS"} ->
                       /\ info.command = Str(service \o "_SERVICE_CHECK")
                       /\ DOMAIN info = {"command", "context"}
                  [] OTHER ->
                       /\ info.command = Str(service \o "_SERVICE_CHECK")
                       /\ DOMAIN info = {"command", "context", "operation_level"}
                       /\ info.operation_level = Obj(cluster)

(* A quorum check was requested and answered. *)
C24_Witness ==
    /\ CheckingService /\ req.args.serviceName = Str("ZOOKEEPER")
    /\ pc = "done" /\ Len(sent) = 1 /\ got[1].ok
    /\ sent[1].data.o.RequestInfo.o.command = Str("ZOOKEEPER_QUORUM_SERVICE_CHECK")
    /\ "operation_level" \in DOMAIN sent[1].data.o.RequestInfo.o

(***************************************************************************)
(* Resource reads and the requests they issue.                             *)
(***************************************************************************)
(* C25: read-resource parses the URI before any outbound call: a read of a *)
(* URI that is not recognized ends with InvalidRequest carrying the URI    *)
(* and has issued no gateway request; a read of a recognized URI issues    *)
(* only GET requests.                                                      *)
C25_ReadParsesBeforeAnyRequest ==
    Reading =>
        IF Recognized(req.uri)
        THEN \A i \in 1..Len(sent) : sent[i].method = "get"
        ELSE /\ Len(sent) = 0
             /\ pc = "done"
             /\ IsMcpError(outcome)
             /\ outcome.error = "InvalidRequest"
             /\ outcome.message.about = req.uri

(***************************************************************************)
(* Maintenance mode.                                                       *)
(***************************************************************************)
ChangingMaintenance ==
    /\ req.kind = "call"
    /\ req.name \in {"ambari_services_enablemaintenancemode",
                      "ambari_services_disablemaintenancemode"}

(* The argument is there and is not empty. *)
Supplied(k) == Truthy(Arg(req.args, k))

TargetsHostComponent(config) ==
    config.url = Url(<<"", "clusters", ToStr(Arg(req.args, "clusterName")),
                       "hosts", ToStr(Arg(req.args, "hostName")),
                       "host_components", ToStr(Arg(req.args, "componentName"))>>)

TargetsService(config) ==
    config.url = Url(<<"", "clusters", ToStr(Arg(req.args, "clusterName")),
                       "services", ToStr(Arg(req.args, "serviceName"))>>)

(* C26: enable/disable maintenance mode issues its PUT to the host         *)
(* component exactly when componentName and hostName are both supplied and *)
(* to the whole service otherwise; a call that supplies componentName      *)
(* never addresses the whole service.                                      *)
C26_ComponentCallNeverChangesService ==
    (ChangingMaintenance /\ Len(sent) >= 1) =>
        /\ sent[1].method = "put"
        /\ TargetsHostComponent(sent[1])
              <=> (Supplied("componentName") /\ Supplied("hostName"))
        /\ TargetsService(sent[1])
              <=> ~(Supplied("componentName") /\ Supplied("hostName"))
        /\ Supplied("componentName") => ~TargetsService(sent[1])

(***************************************************************************)
(* Get-services-with-stale-configs.                                        *)
(***************************************************************************)
ListedServices ==
    /\ req.kind = "call"
    /\ req.name = "ambari_services_getserviceswithstaleconfigs"
    /\ pc = "done" /\ ~IsMcpError(outcome)
    /\ Get(outcome.content.result.data, "items").t = "array"

(* C27: get-services-with-stale-configs applies its declared default       *)
(* onlyStaleConfigs = true: unless the argument is explicitly false, every *)
(* returned service has a host component whose stale_configs is true.      *)
C27_OnlyStaleConfigsDefaultsToTrue ==
    (ListedServices /\ Arg(req.args, "onlyStaleConfigs") # Bool(FALSE)) =>
        LET items == Get(outcome.content.result.data, "items").a
        IN  \A i \in 1..Len(items) : HasStaleHostComponent(items[i])

(***************************************************************************)
(* The errors that leave the two handlers.                                 *)
(***************************************************************************)
ErrorCodes == {"InvalidRequest", "MethodNotFound", "InternalError"}

(* The invocation passed the handler's own validation and none of its      *)
(* gateway calls failed, yet it ended in an error: an exception was raised *)
(* inside the executor or resource handler.                                *)
RaisedInside ==
    /\ pc = "done" /\ IsMcpError(outcome)
    /\ \A i \in 1..Len(got) : got[i].ok
    /\ req.kind = "read" => (~IsError(parsed) /\ parsed.type \in HandlerKinds)
    /\ req.kind = "call" =>
          (Truthy(Executor(req.name)) /\ Truthy(ToolDefinition(req.name)))

(* C29: an invocation that does not end in a success envelope ends in an   *)
(* McpError whose code is InvalidRequest, MethodNotFound or InternalError; *)
(* the error of a failed gateway call leaves the handler unchanged; an     *)
(* exception raised inside an executor or resource handler leaves it as an *)
(* InternalError that names the tool or the URI.                           *)
C29_ErrorsAreMcpErrors ==
    pc = "done" =>
        /\ IsSuccessEnvelope(outcome) \/ IsMcpError(outcome)
        /\ IsMcpError(outcome) =>
              /\ ~IsSuccessEnvelope(outcome)
              /\ DOMAIN outcome \subseteq {"error", "message", "data"}
              /\ outcome.error \in ErrorCodes
        /\ \A i \in 1..Len(got) :
              CallFailed(i) =>
                  outcome = GatewayError(sent[i], calls[i].params, got[i].error)
        /\ RaisedInside =>
              /\ outcome.error = "InternalError"
              /\ IF req.kind = "call"
                 THEN /\ outcome.message.prefix = "Tool execution failed for"
                      /\ outcome.message.about = req.name
                      /\ outcome.data.tool = req.name
                 ELSE /\ outcome.message.prefix = "Resource access failed for"
                      /\ outcome.message.about = req.uri
                      /\ outcome.data.uri = req.uri

(* The alerts handler threw a TypeError on an upstream state it cannot     *)
(* bucket; the read ended in an InternalError naming the URI.              *)
C29_Witness ==
    /\ req.kind = "read" /\ RaisedInside
    /\ parsed.type = "alerts"
    /\ outcome.error = "InternalError"
    /\ outcome.message.about = req.uri
    /\ outcome.data.originalError = outcome.message.originalError

(***************************************************************************)
(* Completion.                                                             *)
(***************************************************************************)
Accepted == req.kind # "none"

Completed ==
    /\ pc = "done"
    /\ IsSuccessEnvelope(outcome) \/ IsMcpError(outcome)

(* A step of an invocation that is waiting for the HTTP client either      *)
(* leaves it waiting for the same call or resumes the same invocation.     *)
NotCancelled ==
    pc = "awaiting" =>
        /\ req' = req
        /\ pc' \in {"awaiting", "done"}
        /\ pc' = "awaiting" => Len(sent') = Len(got') + 1

(* C30: provided every outbound HTTP call ends (in an answer, a transport  *)
(* failure or the timeout), every accepted tool call or resource read      *)
(* eventually completes with a success envelope or an error; none waits    *)
(* forever and none is cancelled midway.                                   *)
C30_EveryInvocationCompletes ==
    /\ Accepted ~> Completed
    /\ [][NotCancelled]_vars

(* A two-step tool call whose two gateway calls were answered has          *)
(* completed with a success envelope.                                      *)
C30_Witness ==
    /\ req.kind = "call" /\ req.name = "ambari_alerts_savealertsettings"
    /\ Len(got) = 2 /\ got[1].ok /\ got[2].ok
    /\ Completed /\ IsSuccessEnvelope(outcome)

(***************************************************************************)
(* Independence of interleaved invocations.                                *)
(***************************************************************************)
(* What an invocation does when it runs alone: the handler state after     *)
(* request r and the answers to its gateway requests, in order.            *)
RECURSIVE Alone(_, _)
Alone(r, answers) ==
    IF answers = <<>>
    THEN Begun(r)
    ELSE LET before == Alone(r, SubSeq(answers, 1, Len(answers) - 1))
             answer == answers[Len(answers)]
             effect ==
                 IF ~answer.ok
                 THEN Throw(GatewayError(before.sent[Len(before.sent)],
                                         before.calls[Len(before.calls)].params,
                                         answer.error))
                 ELSE IF r.kind = "read"
                 THEN HandlerResult(parseResourceUri(r.uri),
                                    GatewayResult(answer.response))
                 ELSE ToolResume(r.name, r.args, Len(before.sent),
                                 GatewayResult(answer.response))
         IN  Carried([before EXCEPT !.got = Append(@, answer)], effect)

(* The request configuration carries the configuration of startup. *)
StaticConfiguration(config) ==
    /\ SubSeq(config.url, 1, Len(AMBARI_BASE_URL)) = AMBARI_BASE_URL
    /\ config.auth = [username |-> AMBARI_USERNAME, password |-> AMBARI_PASSWORD]
    /\ config.timeout = TIMEOUT_MS

====
